---- MODULE Spec2Model ----
(***************************************************************************)
(* State-machine model of the u2u-benchmark engine:                        *)
(*   AccountSender (nonce, per-account counters), Benchmark.Start,         *)
(*   Benchmark.senderWorker, Benchmark.sendTransaction, isNonceError,      *)
(*   Benchmark.metricsReporter and Benchmark.printFinalReport.             *)
(* Every atomic operation on shared memory (atomic.Add/Load, a mutex       *)
(* critical section, a channel close, a select) is one step; goroutine-    *)
(* local computation is folded into the step that follows the shared       *)
(* access it depends on.  The RPC endpoint is an opaque collaborator: a    *)
(* submission returns success or any error message of ErrorMessages.       *)
(***************************************************************************)
EXTENDS Integers, Naturals, Sequences, FiniteSets, TLC

\* ------------------------------------------------------------------ bounds
\* transactions begun (outer loop iterations of all workers) in a run
MaxTx == 2
\* how far the network's pending nonce moves from its value at
\* InitializeAccounts while cmd/check runs
MaxDrift == 1
\* longest throughput history given to calculateTPSStats
MaxHistory == 5
\* ticks of the reporter's ticker in a run
MaxTicks == 2
\* largest report interval a config file gives, in s
MaxInterval == 4
\* seconds the ticker is followed for
MaxClock == 20

\* --------------------------------------------------------- program constants
maxRetriesPerNonce == 2
firstTransactionRetries == 8
backoffThreshold == 5
\* DefaultConfig: the report interval, in s
defaultReportInterval == 1
\* the sleep between two attempts, and the sleep after a failed transaction,
\* in ms
retrySleepMs == 1
backoffSleepMs == 5

\* main: the minimum balance of an account, in units of 1e17 wei
minBalance == 1

\* ------------------------------------------------------------ input domains
\* pending nonce the network reports for account a at InitializeAccounts
InitNonceOf(a) == 7 + 3 * a
\* the runs explored, as <<len(accounts), ConcurrentSendersPerAccount>>
Configs == { <<1, -1>>, <<1, 0>>, <<1, 1>>, <<1, 2>>, <<2, 1>> }
\* the runs in which the reporter's ticker fires before the reporter stops
TickingConfigs == { <<1, 1>> }
\* latency of one submission call, in abstract time units
Latencies == {2}
\* numbers of accounts cmd/check is run on
CheckAccounts == {1, 2}
\* throughput samples
Samples == {62, 64, 65, 68, 70}
Histories == UNION { [1 .. k -> Samples] : k \in 0 .. MaxHistory }
\* the settings of the run other than accounts and senders: a 2 s run, the
\* rest as DefaultConfig gives them
RunConfig ==
    [DurationSeconds |-> 2, MaxRetries |-> 3, RetryDelay |-> 100,
     WarmupDuration |-> 5]
\* the runs long enough for backoffThreshold failures in a row and one more
LongRunConfigs == { <<1, -1>> }
\* what a config file says about report_interval_seconds
IntervalsInFile ==
    {[present |-> FALSE, value |-> 0]} \cup
    {[present |-> TRUE, value |-> v] : v \in -1 .. MaxInterval}
\* balances the network reports, in units of 1e17 wei
Balances == {0, 1}
\* invocations of cmd/benchmark: whether -config names a file, the value of
\* config.NumAccounts (from the file, or from -accounts, default 10), the
\* value of config.ConcurrentSendersPerAccount and the keys in the keys file
SetupInputs ==
    { [file |-> TRUE,  accounts |-> 1,  senders |-> 1, keys |-> 2],
      [file |-> FALSE, accounts |-> 1,  senders |-> 0, keys |-> 2],
      [file |-> FALSE, accounts |-> 10, senders |-> 0, keys |-> 1] }
\* error messages of the RPC layer; a string is the sequence of its characters
ErrorMessages ==
    { <<"n", "o", "n", "c", "e", " ", "t", "o", "o", " ", "l", "o", "w">>,
      <<"N", "o", "n", "c", "e", " ", "t", "o", "o", " ", "h", "i", "g", "h">>,
      <<"A", "L", "R", "E", "A", "D", "Y", " ", "K", "N", "O", "W", "N">>,
      <<"r", "e", "p", "l", "a", "c", "e", "m", "e", "n", "t", " ", "t", "r",
        "a", "n", "s", "a", "c", "t", "i", "o", "n", " ", "u", "n", "d", "e",
        "r", "p", "r", "i", "c", "e", "d">>,
      <<"c", "o", "n", "n", "e", "c", "t", "i", "o", "n", " ", "t", "i", "m",
        "e", "o", "u", "t">>,
      <<"t", "x", " ", "0", "x", "n", "o", "n", "c", "e", "n", "s", "e", " ",
        "f", "a", "i", "l", "e", "d">>,
      <<"i", "n", "s", "u", "f", "f", "i", "c", "i", "e", "n", "t", " ", "f",
        "u", "n", "d", "s">> }

VARIABLES
    \* configuration and accounts (fixed after construction)
    numAccounts,        \* len(b.accounts)
    cfgSenders,         \* b.config.ConcurrentSendersPerAccount
    cfgDuration,        \* b.config.DurationSeconds
    cfgMaxRetries,      \* b.config.MaxRetries
    cfgRetryDelay,      \* b.config.RetryDelay, in ms
    cfgWarmupDuration,  \* b.config.WarmupDuration, in s
    initNonce,          \* nonce each AccountSender was constructed with
    \* AccountSender
    nonce,              \* a.nonce, per account
    accSent,            \* a.sent, per account
    accErrors,          \* a.errors, per account
    \* Benchmark
    sentCount, errorCount, totalLatency,
    tpsHistory,
    stopChan,           \* TRUE once close(b.stopChan) has run
    stopMetricsChan,    \* TRUE once close(b.stopMetricsChan) has run
    wg,                 \* b.wg counter
    \* Start (main goroutine)
    startPc, finalSent, finalErrors, finalLatency, report,
    \* senderWorker goroutines, one per (account, slot)
    pc, retry, maxRetries, consecutiveErrors, firstTransaction,
    txNonce, txTarget, latency,
    \* metricsReporter goroutine
    repPc, lastSent, reportCount, repSent, repErrors, repLatency, lastLine,
    \* the network's and the run's log (what happened, not program state)
    started,            \* transactions begun so far
    begun,              \* per worker: transactions that worker has begun
    graceElapsed,       \* TRUE once the grace delay of Start has elapsed
    atSnapshot,         \* the endpoint's log when Start ended its snapshot
    returned,           \* per account: values returned by GetNextNonce
    accepted,           \* per account: submissions the endpoint accepted
    acceptedLatency,    \* sum of the latencies of the accepted submissions
    acceptedNonces,     \* per account: nonces of the accepted submissions
    exhausted,          \* per account: transactions whose retries ran out
    nonceErrors,        \* per account: nonce-class errors the endpoint gave
    \* the network
    netPending,         \* per account: the pending nonce the network holds
    \* cmd/benchmark main, before Benchmark.Start
    setupPc,            \* position of main in its setup sequence
    configFileGiven,    \* *configFile != ""
    cfgNumAccounts,     \* config.NumAccounts
    keysInFile,         \* number of keys LoadPrivateKeys returns
    setupLog,           \* the step that failed, the balances CheckBalances saw
    \* cmd/check main and AccountSender.mu
    mu,                 \* per account: TRUE while a.mu is held
    checkPc, checkIdx, nextConfirmedNonce, nextPendingNonce, localNonce,
    lastResync,         \* the answer the last ResyncNonce call received
    lastRow,            \* the table row printed last
    totalPending, allSynced,
    \* calculateTPSStats applied to a drawn history
    statsPc, statsIn, statsOut,
    intervalInFile,     \* report_interval_seconds of the config file, if any
    cfgReportInterval,  \* b.config.ReportInterval
    tickerPc,           \* where the start of the reporter stands
    tickerPeriod,       \* the period of the reporter's ticker, in s
    clock,              \* seconds since the ticker was made
    ticks               \* ticks the ticker has delivered

confVars   == <<numAccounts, cfgSenders, initNonce, cfgDuration,
                cfgMaxRetries, cfgRetryDelay, cfgWarmupDuration>>
acctVars   == <<nonce, accSent, accErrors>>
benchVars  == <<sentCount, errorCount, totalLatency, tpsHistory,
                stopChan, stopMetricsChan, wg>>
startVars  == <<startPc, finalSent, finalErrors, finalLatency, report>>
workerVars == <<pc, retry, maxRetries, consecutiveErrors, firstTransaction,
                txNonce, txTarget, latency>>
repVars    == <<repPc, lastSent, reportCount, repSent, repErrors, repLatency,
                lastLine>>
runLog     == <<started, begun, graceElapsed, atSnapshot>>
netLog     == <<returned, accepted, acceptedLatency, acceptedNonces,
                exhausted, nonceErrors>>
logVars    == <<runLog, netLog>>
setupVars  == <<setupPc, configFileGiven, cfgNumAccounts, keysInFile,
                setupLog>>
checkLocals == <<checkPc, checkIdx, nextConfirmedNonce, nextPendingNonce,
                 localNonce, lastResync, lastRow, totalPending, allSynced>>
checkVars  == <<mu, checkLocals>>
statsVars  == <<statsPc, statsIn, statsOut>>
tickerVars == <<intervalInFile, cfgReportInterval, tickerPc, tickerPeriod,
                clock, ticks>>
toolVars   == <<setupVars, checkVars, statsVars, tickerVars>>
offRun     == <<toolVars, netPending>>
vars == <<confVars, acctVars, benchVars, startVars, workerVars, repVars,
          logVars, offRun>>

\* ------------------------------------------------------------------ helpers
Accounts == 0 .. (numAccounts - 1)

RECURSIVE SumOver(_, _)
SumOver(f, S) ==
    IF S = {} THEN 0
    ELSE LET x == CHOOSE y \in S : TRUE IN f[x] + SumOver(f, S \ {x})

RECURSIVE SumSeq(_)
SumSeq(s) == IF s = <<>> THEN 0 ELSE Head(s) + SumSeq(Tail(s))

\* the ASCII letters
UpperCase ==
    <<"A", "B", "C", "D", "E", "F", "G", "H", "I", "J", "K", "L", "M",
      "N", "O", "P", "Q", "R", "S", "T", "U", "V", "W", "X", "Y", "Z">>
LowerCase ==
    <<"a", "b", "c", "d", "e", "f", "g", "h", "i", "j", "k", "l", "m",
      "n", "o", "p", "q", "r", "s", "t", "u", "v", "w", "x", "y", "z">>

\* strings.ToLower on one character of an ASCII message
ToLowerChar(c) ==
    IF \E i \in DOMAIN UpperCase : UpperCase[i] = c
    THEN LowerCase[CHOOSE i \in DOMAIN UpperCase : UpperCase[i] = c]
    ELSE c

\* strings.ToLower
ToLower(msg) == [i \in 1 .. Len(msg) |-> ToLowerChar(msg[i])]

\* strings.Contains: sub occurs in msg at some position
Contains(msg, sub) ==
    \E i \in 0 .. (Len(msg) - Len(sub)) :
        \A j \in 1 .. Len(sub) : msg[i + j] = sub[j]

\* the four substrings isNonceError looks for, lines 457-460
nonceText == <<"n", "o", "n", "c", "e">>
nonceTooLowText ==
    <<"n", "o", "n", "c", "e", " ", "t", "o", "o", " ", "l", "o", "w">>
alreadyKnownText ==
    <<"a", "l", "r", "e", "a", "d", "y", " ", "k", "n", "o", "w", "n">>
underpricedText ==
    <<"r", "e", "p", "l", "a", "c", "e", "m", "e", "n", "t", " ", "t", "r",
      "a", "n", "s", "a", "c", "t", "i", "o", "n", " ", "u", "n", "d", "e",
      "r", "p", "r", "i", "c", "e", "d">>

\* line 453: a nil error is the empty message
isNonceError(err) ==
    IF err = <<>> THEN FALSE
    ELSE LET errStr == ToLower(err) IN
         \/ Contains(errStr, nonceText)
         \/ Contains(errStr, nonceTooLowText)
         \/ Contains(errStr, alreadyKnownText)
         \/ Contains(errStr, underpricedText)

\* isNonceError on the messages of ErrorMessages, evaluated once for each
nonceErrorOf == [e \in ErrorMessages |-> isNonceError(e)]

\* line 413: isNonceError(err) as the worker calls it
IsNonceErr(e) ==
    IF e \in ErrorMessages THEN nonceErrorOf[e] ELSE isNonceError(e)

\* mutant: GetNextNonce returns with a.mu still held
GetNextNonce_NoUnlock(n) == [ret |-> n, nonce |-> n, locked |-> TRUE]

\* mutant: GetNextNonce advances the nonce
GetNextNonce_Advancing(n) == [ret |-> n, nonce |-> n + 1, locked |-> FALSE]

\* AccountSender.GetNextNonce: the value returned, the nonce left behind and
\* whether a.mu is still held when the call has returned
GetNextNonce(n) == [ret |-> n, nonce |-> n, locked |-> FALSE]

\* AccountSender.IncrementNonce, lines 203-207: the nonce left behind
IncrementNonce(n) == n + 1

\* mutant: a resync never lowers the local nonce
ResyncNonce_OnlyForward(n, answer) ==
    IF answer.ok
    THEN [nonce |-> IF answer.value > n THEN answer.value ELSE n, ok |-> TRUE]
    ELSE [nonce |-> n, ok |-> FALSE]

\* mutant: a failed resync stores the zero value the query returned
ResyncNonce_ZeroOnError(n, answer) ==
    IF answer.ok THEN [nonce |-> answer.value, ok |-> TRUE]
    ELSE [nonce |-> 0, ok |-> FALSE]

\* AccountSender.ResyncNonce: the nonce left behind and whether the call
\* returned nil, given the answer of client.PendingNonceAt
ResyncNonce(n, answer) ==
    IF answer.ok THEN [nonce |-> answer.value, ok |-> TRUE]
    ELSE [nonce |-> n, ok |-> FALSE]

\* mutant: CurrentNonce returns the nonce after the current one
CurrentNonce_Next(n) == n + 1

\* AccountSender.CurrentNonce
CurrentNonce(n) == n

\* mutant: the target index is not wrapped
TargetIndex_NoWrap(accountID, n) == accountID + 1

\* sendTransaction: round-robin target
TargetIndex(accountID, n) == (accountID + 1) % n

\* mutant: the configured number of senders is used as it is
ConcurrentSenders_NoFallback(c) == c

\* Start: effective number of senders per account
ConcurrentSenders(c) == IF c <= 0 THEN 1 ELSE c

\* calculateTPSStats: the bubble sort on the copy, 1-based positions
Swap(s, j) == [s EXCEPT ![j] = s[j + 1], ![j + 1] = s[j]]

\* inner loop: positions j .. last, swapping neighbours out of order
RECURSIVE BubblePass(_, _, _)
BubblePass(s, j, last) ==
    IF j > last THEN s
    ELSE BubblePass(IF s[j] > s[j + 1] THEN Swap(s, j) ELSE s, j + 1, last)

\* outer loop: i = 0 .. len-2
RECURSIVE BubbleSort(_, _)
BubbleSort(s, i) ==
    IF i >= Len(s) - 1 THEN s
    ELSE BubbleSort(BubblePass(s, 1, Len(s) - i - 1), i + 1)

\* calculateTPSStats, lines 675-685: the argument slice tpsHistory and the
\* local slice sorted when the loops have ended. make and copy give sorted
\* an array of its own holding the elements of tpsHistory; every write of
\* the bubble sort goes to sorted
SortedCopy(history) ==
    LET copied == [tpsHistory |-> history, sorted |-> history]
    IN [copied EXCEPT !.sorted = BubbleSort(copied.sorted, 0)]

\* mutant: the statistics are read from the history as it is, unsorted
calculateTPSStats_Unsorted(history) ==
    IF Len(history) = 0 THEN [min |-> 0, max |-> 0, median |-> 0]
    ELSE [min |-> history[1],
          max |-> history[Len(history)],
          median |-> history[(Len(history) \div 2) + 1]]

\* mutant: the median of an even-length history is the lower middle element
calculateTPSStats_LowerMedian(history) ==
    IF Len(history) = 0 THEN [min |-> 0, max |-> 0, median |-> 0]
    ELSE LET sorted == BubbleSort(history, 0)
         IN [min |-> sorted[1],
             max |-> sorted[Len(sorted)],
             median |-> sorted[(Len(sorted) + 1) \div 2]]

calculateTPSStats(history) ==
    IF Len(history) = 0 THEN [min |-> 0, max |-> 0, median |-> 0]
    ELSE LET sorted == SortedCopy(history).sorted
         IN [min |-> sorted[1],
             max |-> sorted[Len(sorted)],
             median |-> sorted[(Len(sorted) \div 2) + 1]]

\* ------------------------------------------------------------ float64
\* A float64 is kept as its 53-bit significand and a binary exponent: the
\* value is mant * 2^exp. The significand is a whole number written in
\* digits of LimbBits bits, the lowest digit first and the highest digit
\* not 0; zero has no digit. The values of a report are far from the
\* subnormal and overflow ranges. The arithmetic is written as functions,
\* which take their arguments as values.
SignificandBits == 53

LimbBits == 14

PowersOf2 ==
    <<1, 2, 4, 8, 16, 32, 64, 128, 256, 512, 1024, 2048, 4096, 8192, 16384>>

Pow2(k) == PowersOf2[k + 1]

LimbBase == Pow2(LimbBits)

\* the float64 values: a significand as digits in base LimbBase, lowest
\* first, times two to the exp
Float64Values == [mant : Seq(Nat), exp : Int]

Float64Zero == [mant |-> <<>>, exp |-> 0]

Limb(a, j) == IF 1 <= j /\ j <= Len(a) THEN a[j] ELSE 0

\* a digit sequence without its high zero digits
Trim[a \in Seq(Nat)] ==
    LET used == {i \in DOMAIN a : a[i] # 0}
    IN IF used = {} THEN <<>>
       ELSE SubSeq(a, 1, CHOOSE i \in used : \A k \in used : k <= i)

\* a natural number below 2^31 in digits
NatBig[n \in Nat] ==
    Trim[<<n % LimbBase, (n \div LimbBase) % LimbBase,
           n \div (LimbBase * LimbBase)>>]

\* the natural number of a digit sequence (below 2^31)
BigNat[a \in Seq(Nat)] ==
    Limb(a, 1) + LimbBase * (Limb(a, 2) + LimbBase * Limb(a, 3))

\* the number of binary digits of a digit sequence
BitLen[a \in Seq(Nat)] ==
    IF a = <<>> THEN 0
    ELSE LimbBits * (Len(a) - 1)
           + (CHOOSE k \in 1 .. LimbBits :
                Pow2(k - 1) <= a[Len(a)] /\ a[Len(a)] < Pow2(k))

\* binary digit i of a digit sequence, the lowest being digit 0
Bit(a, i) == (Limb(a, (i \div LimbBits) + 1) \div Pow2(i % LimbBits)) % 2

\* a \div 2^s
ShiftRight[a \in Seq(Nat), s \in Nat] ==
    LET q == s \div LimbBits
        r == s % LimbBits
    IN Trim[[j \in 1 .. (IF Len(a) > q THEN Len(a) - q ELSE 0) |->
               (Limb(a, j + q) \div Pow2(r))
                 + (Limb(a, j + q + 1) % Pow2(r)) * Pow2(LimbBits - r)]]

\* a * 2^s
ShiftLeft[a \in Seq(Nat), s \in Nat] ==
    LET q == s \div LimbBits
        r == s % LimbBits
    IN Trim[[j \in 1 .. (Len(a) + q + 1) |->
               (Limb(a, j - q) % Pow2(LimbBits - r)) * Pow2(r)
                 + (Limb(a, j - q - 1) \div Pow2(LimbBits - r))]]

\* a + 1
Increment[a \in Seq(Nat)] ==
    LET open == {i \in DOMAIN a : a[i] # LimbBase - 1}
    IN IF open = {} THEN [i \in 1 .. (Len(a) + 1) |->
                            IF i = Len(a) + 1 THEN 1 ELSE 0]
       ELSE LET first == CHOOSE i \in open : \A k \in open : i <= k
            IN [i \in DOMAIN a |-> IF i < first THEN 0
                                   ELSE IF i = first THEN a[i] + 1
                                   ELSE a[i]]

\* the digit sequence of a sequence of column sums: every column passes
\* its carry to the column above
Carry[c \in Seq(Nat)] ==
    LET total[k \in 0 .. Len(c)] ==
            IF k = 0 THEN 0 ELSE c[k] + (total[k - 1] \div LimbBase)
    IN Trim[[k \in 1 .. Len(c) |-> total[k] % LimbBase]]

\* the exact product of two digit sequences, the first of at most four
\* digits: the sums of the columns of the long multiplication, carried
MulBig[a \in Seq(Nat), b \in Seq(Nat)] ==
    IF a = <<>> \/ b = <<>> THEN <<>>
    ELSE Carry[SubSeq([k \in 1 .. (Len(a) + Len(b)) |->
                         Limb(a, 1) * Limb(b, k)
                           + Limb(a, 2) * Limb(b, k - 1)
                           + Limb(a, 3) * Limb(b, k - 2)
                           + Limb(a, 4) * Limb(b, k - 3)],
                      1, Len(a) + Len(b))]

\* the t low binary digits of a digit sequence are all 0
LowBitsZero(a, t) ==
    /\ \A j \in 1 .. (t \div LimbBits) : Limb(a, j) = 0
    /\ Limb(a, (t \div LimbBits) + 1) % Pow2(t % LimbBits) = 0

\* IEEE 754 round to nearest, ties to even, when the s low binary digits of
\* a are dropped (sticky: digits below a that are not all 0): up when the
\* part dropped is more than half a unit of the last place kept, or exactly
\* half with the last place kept odd
RoundsUp[a \in Seq(Nat), s \in Nat, sticky \in BOOLEAN] ==
    /\ s > 0
    /\ Bit(a, s - 1) = 1
    /\ \/ sticky
       \/ ~LowBitsZero(a, s - 1)
       \/ Bit(a, s) = 1

\* a with its s low binary digits rounded away (s > 0), or with -s zeros
\* added below, so that 53 binary digits are left
RoundDigits[a \in Seq(Nat), exp \in Int, sticky \in BOOLEAN, s \in Int] ==
    IF s <= 0
    THEN [mant |-> ShiftLeft[a, 0 - s], exp |-> exp + s]
    ELSE LET up == IF RoundsUp[a, s, sticky] THEN Increment[ShiftRight[a, s]]
                   ELSE ShiftRight[a, s]
         IN IF Bit(up, SignificandBits) = 1
            THEN [mant |-> ShiftRight[up, 1], exp |-> exp + s + 1]
            ELSE [mant |-> up, exp |-> exp + s]

\* the float64 nearest to (a + t) * 2^exp, with t = 0 when sticky is FALSE
\* and 0 < t < 1 when it is TRUE
RoundToFloat64[a \in Seq(Nat), exp \in Int, sticky \in BOOLEAN] ==
    IF a = <<>> THEN Float64Zero
    ELSE RoundDigits[a, exp, sticky, BitLen[a] - SignificandBits]

\* float64(n) of a uint64 below 2^53, which the conversion holds exactly
Float64FromUint[n \in Nat] == RoundToFloat64[NatBig[n], 0, FALSE]

\* the next LimbBits binary digits of the fraction r/d (r < d < 2^24), seven
\* at a time, and the remainder left
DivideLimb[r \in Nat, d \in Nat] ==
    LET r1 == (128 * r) % d
    IN [digit |-> ((128 * r) \div d) * 128 + ((128 * r1) \div d),
        rem |-> (128 * r1) % d]

\* the fraction digits taken by a division: the quotient of two numbers
\* below 2^24 then has 53 binary digits and more
FractionLimbs == 6

\* a division under way: the digits of the quotient so far and the remainder
Quotients == [quo : Seq(Nat), rem : Nat]

\* a quotient so far with one more digit of the fraction
DivideOn[q \in Quotients, d \in Nat] ==
    [quo |-> <<DivideLimb[q.rem, d].digit>> \o q.quo,
     rem |-> DivideLimb[q.rem, d].rem]

\* the whole part of n/d followed by FractionLimbs digits of its fraction,
\* and the remainder left
LongDivision[n \in Nat, d \in Nat] ==
    LET step[k \in 0 .. FractionLimbs] ==
            IF k = 0 THEN [quo |-> NatBig[n \div d], rem |-> n % d]
            ELSE DivideOn[step[k - 1], d]
    IN step[FractionLimbs]

\* the float64 nearest to a quotient with FractionLimbs digits of fraction
RoundQuotient[q \in Quotients] ==
    RoundToFloat64[Trim[q.quo], 0 - LimbBits * FractionLimbs, q.rem > 0]

\* float64(n) / float64(d) of two uint64 below 2^24 with d > 0: the float64
\* nearest to the quotient
Float64Quo[n \in Nat, d \in Nat] ==
    IF n = 0 THEN Float64Zero ELSE RoundQuotient[LongDivision[n, d]]

\* x * y of two float64: the float64 nearest to the product
Float64Mul[x \in Float64Values, y \in Float64Values] ==
    IF x.mant = <<>> \/ y.mant = <<>> THEN Float64Zero
    ELSE RoundToFloat64[MulBig[x.mant, y.mant], x.exp + y.exp, FALSE]

\* the digits fmt's "%.<prec>f" prints for a float64, read as one integer
\* (the value in units of 10^-prec): the decimal expansion of the float64
\* is exact and is rounded to the nearest, a tie to the even digit
FormatFloat[x \in Float64Values, prec \in Nat] ==
    IF x.mant = <<>> THEN 0
    ELSE LET scaled == MulBig[x.mant, NatBig[<<1, 10, 100, 1000>>[prec + 1]]]
         IN IF x.exp >= 0 THEN BigNat[ShiftLeft[scaled, x.exp]]
            ELSE IF RoundsUp[scaled, 0 - x.exp, FALSE]
                 THEN BigNat[ShiftRight[scaled, 0 - x.exp]] + 1
                 ELSE BigNat[ShiftRight[scaled, 0 - x.exp]]

\* lines 552, 568, 587, 598: float64(n)/float64(d)*100 with d > 0
Percentage(n, d) == Float64Mul[Float64Quo[n, d], Float64FromUint[100]]

\* the text "%.2f" gives for n/d*100 with d > 0, in hundredths of a percent
FormatPercent2(n, d) == FormatFloat[Percentage(n, d), 2]

\* printFinalReport, line 552: float64(sent)/float64(sent+errors)*100 as
\* printed; the float64 quotient 0/0 is NaN, printed as "NaN"
PrintedAcceptRate(sent, errors) ==
    IF sent + errors = 0 THEN [nan |-> TRUE, hundredths |-> 0]
    ELSE [nan |-> FALSE, hundredths |-> FormatPercent2(sent, sent + errors)]

\* saveResults, lines 585-589
SavedAcceptRate(sent, errors) ==
    IF sent + errors > 0 THEN Percentage(sent, sent + errors)
    ELSE Float64Zero

\* the text "%.1f" gives for a float64, in tenths of a percent
FormatPercent1(p) == FormatFloat[p, 1]

\* mutant: an account without traffic gets the rate 0
AccountSuccessRate_ZeroWhenIdle(sent, errors) ==
    IF sent + errors > 0 THEN Percentage(sent, sent + errors)
    ELSE Float64Zero

\* printFinalReport lines 566-569 and saveResults lines 596-599: the rate of
\* one account, 100.0 unless it has traffic
AccountSuccessRate(sent, errors) ==
    IF sent + errors > 0 THEN Percentage(sent, sent + errors)
    ELSE Float64FromUint[100]

\* saveResults lines 593-607: the per-account entries, from the live counters
AccountStats ==
    [a \in DOMAIN accSent |->
       [sent |-> accSent[a], errors |-> accErrors[a],
        successRate |-> AccountSuccessRate(accSent[a], accErrors[a])]]

\* printFinalReport lines 563-572: the rate printed on each account's line
PrintedAccountRates ==
    [a \in DOMAIN accSent |->
       FormatPercent1(AccountSuccessRate(accSent[a], accErrors[a]))]

\* lines 423-425: the ms slept after failed attempt number retry (from 0) of
\* a transaction with a budget of m attempts
RetrySleep(r, m) == IF r < m - 1 THEN retrySleepMs ELSE 0

\* lines 438-440: the ms slept after a failed transaction, c being the
\* consecutive-error counter after its increment
BackoffSleep(c) == IF c < backoffThreshold THEN backoffSleepMs ELSE 0

\* transactions begun in this run
TxBudget ==
    IF <<numAccounts, cfgSenders>> \in LongRunConfigs
    THEN backoffThreshold + 1 ELSE MaxTx

\* transactions worker w has begun
BegunBy(w) == IF w \in DOMAIN begun THEN begun[w] ELSE 0

\* ticks of the ticker in this run
TickBudget ==
    IF <<numAccounts, cfgSenders>> \in TickingConfigs THEN MaxTicks ELSE 0

Workers == DOMAIN pc
AccountOf(w) == w[1]
WorkersOf(a) == {w \in Workers : AccountOf(w) = a}

\* the network's pending nonce after it accepted a transaction carrying n:
\* the next nonce in sequence extends the pending range, any other is queued
\* or replaces a pending transaction
PendingAfterAccept(pending, n) == IF n = pending THEN pending + 1 ELSE pending

\* senderWorker: retry budget of one transaction
MaxRetriesFor(first) ==
    IF first THEN firstTransactionRetries ELSE maxRetriesPerNonce

\* ---------------------------------------------------------------------- Init
Init ==
    /\ \E cfg \in Configs : numAccounts = cfg[1] /\ cfgSenders = cfg[2]
    /\ cfgDuration = RunConfig.DurationSeconds
    /\ cfgMaxRetries = RunConfig.MaxRetries
    /\ cfgRetryDelay = RunConfig.RetryDelay
    /\ cfgWarmupDuration = RunConfig.WarmupDuration
    /\ initNonce = [a \in 0 .. (numAccounts - 1) |-> InitNonceOf(a)]
    /\ nonce = initNonce
    /\ accSent = [a \in 0 .. (numAccounts - 1) |-> 0]
    /\ accErrors = [a \in 0 .. (numAccounts - 1) |-> 0]
    /\ sentCount = 0 /\ errorCount = 0 /\ totalLatency = 0
    /\ tpsHistory = <<>>
    /\ stopChan = FALSE /\ stopMetricsChan = FALSE
    /\ wg = 0
    /\ startPc = "spawn"
    /\ finalSent = 0 /\ finalErrors = 0 /\ finalLatency = 0
    /\ report = [made |-> FALSE]
    /\ pc = <<>> /\ retry = <<>> /\ maxRetries = <<>>
    /\ consecutiveErrors = <<>> /\ firstTransaction = <<>>
    /\ txNonce = <<>> /\ txTarget = <<>> /\ latency = <<>>
    /\ repPc = "unspawned"
    /\ lastSent = 0 /\ reportCount = 0 /\ repSent = 0 /\ repErrors = 0
    /\ repLatency = 0
    /\ lastLine = [printed |-> FALSE]
    /\ started = 0 /\ begun = <<>>
    /\ graceElapsed = FALSE
    /\ atSnapshot = [taken |-> FALSE]
    /\ returned = [a \in 0 .. (numAccounts - 1) |-> {}]
    /\ accepted = [a \in 0 .. (numAccounts - 1) |-> 0]
    /\ acceptedLatency = 0
    /\ acceptedNonces = [a \in 0 .. (numAccounts - 1) |-> {}]
    /\ exhausted = [a \in 0 .. (numAccounts - 1) |-> 0]
    /\ nonceErrors = [a \in 0 .. (numAccounts - 1) |-> 0]
    /\ netPending = initNonce
    /\ setupPc = "ready" /\ configFileGiven = TRUE
    /\ cfgNumAccounts = numAccounts /\ keysInFile = numAccounts
    /\ setupLog = [failedAt |-> "none",
                   balances |-> [i \in 1 .. numAccounts |-> minBalance]]
    /\ mu = [a \in 0 .. (numAccounts - 1) |-> FALSE]
    /\ checkPc = "off" /\ checkIdx = 0
    /\ nextConfirmedNonce = 0 /\ nextPendingNonce = 0 /\ localNonce = 0
    /\ lastResync = [called |-> FALSE]
    /\ lastRow = [printed |-> FALSE]
    /\ totalPending = 0 /\ allSynced = TRUE
    /\ statsPc = "off" /\ statsIn = <<>> /\ statsOut = [computed |-> FALSE]
    /\ intervalInFile = [present |-> FALSE, value |-> 0]
    /\ cfgReportInterval = defaultReportInterval
    /\ tickerPc = "off" /\ tickerPeriod = 0 /\ clock = 0 /\ ticks = 0

\* ------------------------------------------------------------ Benchmark.Start
\* lines 324-343: spawn one senderWorker per (account, slot), then the reporter
StartSpawn ==
    /\ startPc = "spawn"
    /\ LET c == ConcurrentSenders(cfgSenders)
           ws == {<<a, s>> : a \in Accounts, s \in 0 .. (c - 1)}
       IN /\ pc' = [w \in ws |-> "select"]
          /\ retry' = [w \in ws |-> 0]
          /\ maxRetries' = [w \in ws |-> maxRetriesPerNonce]
          /\ consecutiveErrors' = [w \in ws |-> 0]
          /\ firstTransaction' = [w \in ws |-> TRUE]
          /\ txNonce' = [w \in ws |-> 0]
          /\ txTarget' = [w \in ws |-> 0]
          /\ latency' = [w \in ws |-> 0]
          /\ wg' = wg + Cardinality(ws)
    /\ repPc' = "select"
    /\ startPc' = "sleep"
    /\ UNCHANGED <<confVars, offRun, acctVars, sentCount, errorCount, totalLatency,
                   tpsHistory, stopChan, stopMetricsChan, finalSent,
                   finalErrors, finalLatency, report, lastSent, reportCount,
                   repSent, repErrors, repLatency, lastLine, logVars>>

\* mutant: the snapshot loads the wrong counter
StartLoadSent_WrongCounter ==
    /\ startPc = "sleep"
    /\ finalSent' = errorCount
    /\ startPc' = "loadErrors"
    /\ UNCHANGED <<confVars, offRun, acctVars, benchVars, finalErrors, finalLatency,
                   report, workerVars, repVars, logVars>>

\* line 346 returns, line 349: finalSent := atomic.LoadUint64(&b.sentCount)
StartLoadSent ==
    /\ startPc = "sleep"
    /\ finalSent' = sentCount
    /\ startPc' = "loadErrors"
    /\ UNCHANGED <<confVars, offRun, acctVars, benchVars, finalErrors, finalLatency,
                   report, workerVars, repVars, logVars>>

\* line 350
StartLoadErrors ==
    /\ startPc = "loadErrors"
    /\ finalErrors' = errorCount
    /\ startPc' = "loadLatency"
    /\ UNCHANGED <<confVars, offRun, acctVars, benchVars, finalSent, finalLatency,
                   report, workerVars, repVars, logVars>>

\* line 351
StartLoadLatency ==
    /\ startPc = "loadLatency"
    /\ finalLatency' = totalLatency
    /\ startPc' = "closeStop"
    /\ atSnapshot' = [taken |-> TRUE, accepted |-> accepted,
                      exhausted |-> exhausted]
    /\ UNCHANGED <<confVars, offRun, acctVars, benchVars, finalSent, finalErrors,
                   report, workerVars, repVars, started, begun,
                   graceElapsed, netLog>>

\* line 354: close(b.stopChan)
StartCloseStop ==
    /\ startPc = "closeStop"
    /\ stopChan' = TRUE
    /\ startPc' = "wait"
    /\ UNCHANGED <<confVars, offRun, acctVars, sentCount, errorCount, totalLatency,
                   tpsHistory, stopMetricsChan, wg, finalSent, finalErrors,
                   finalLatency, report, workerVars, repVars, logVars>>

\* mutant: Start does not wait for the worker group
StartWait_NoWait ==
    /\ startPc = "wait"
    /\ startPc' = "grace"
    /\ UNCHANGED <<confVars, offRun, acctVars, benchVars, finalSent, finalErrors,
                   finalLatency, report, workerVars, repVars, logVars>>

\* line 355: b.wg.Wait() returns once the counter is zero
StartWait ==
    /\ startPc = "wait"
    /\ wg = 0
    /\ startPc' = "grace"
    /\ UNCHANGED <<confVars, offRun, acctVars, benchVars, finalSent, finalErrors,
                   finalLatency, report, workerVars, repVars, logVars>>

\* line 358: time.Sleep(150ms) returns
StartGrace ==
    /\ startPc = "grace"
    /\ graceElapsed' = TRUE
    /\ startPc' = "closeMetrics"
    /\ UNCHANGED <<confVars, offRun, acctVars, benchVars, finalSent, finalErrors,
                   finalLatency, report, workerVars, repVars, started, begun,
                   atSnapshot, netLog>>

\* line 361: close(b.stopMetricsChan)
StartCloseMetrics ==
    /\ startPc = "closeMetrics"
    /\ stopMetricsChan' = TRUE
    /\ startPc' = "report"
    /\ UNCHANGED <<confVars, offRun, acctVars, sentCount, errorCount, totalLatency,
                   tpsHistory, stopChan, wg, finalSent, finalErrors,
                   finalLatency, report, workerVars, repVars, logVars>>

\* lines 582-658: the record saveResults encodes; nothing is written when
\* the output file cannot be created
saveResults(sent, errors, stats, fileCreated) ==
    IF fileCreated
    THEN [written |-> TRUE,
          totalSubmitted |-> sent,
          totalErrors |-> errors,
          rpcAcceptRate |-> SavedAcceptRate(sent, errors),
          peakTPS |-> stats.max, minTPS |-> stats.min,
          medianTPS |-> stats.median,
          history |-> tpsHistory,
          accountStats |-> AccountStats]
    ELSE [written |-> FALSE]

\* line 365: b.printFinalReport(finalSent, finalErrors, finalLatency), up to
\* the call of saveResults (lines 532-576): b.tpsHistory is read at line 542
printFinalReport(sent, errors, totalLat) ==
    LET stats == calculateTPSStats(tpsHistory)
    IN [made |-> FALSE,
        totalSubmitted |-> sent,
        totalErrors |-> errors,
        totalLatency |-> totalLat,
        acceptRate |-> PrintedAcceptRate(sent, errors),
        peakTPS |-> stats.max, minTPS |-> stats.min,
        medianTPS |-> stats.median,
        history |-> tpsHistory,
        accountSent |-> accSent,
        accountErrors |-> accErrors,
        accountRate |-> PrintedAccountRates,
        saved |-> [written |-> FALSE]]

\* mutant: the report is made from the live counters
StartReport_LiveCounters ==
    /\ startPc = "report"
    /\ report' = printFinalReport(sentCount, errorCount, totalLatency)
    /\ startPc' = "save"
    /\ UNCHANGED <<confVars, offRun, acctVars, benchVars, finalSent, finalErrors,
                   finalLatency, workerVars, repVars, logVars>>

\* lines 365, 532-576: the statistics are computed and the report printed
StartReport ==
    /\ startPc = "report"
    /\ report' = printFinalReport(finalSent, finalErrors, finalLatency)
    /\ startPc' = "save"
    /\ UNCHANGED <<confVars, offRun, acctVars, benchVars, finalSent, finalErrors,
                   finalLatency, workerVars, repVars, logVars>>

\* lines 578-579, 582-658: saveResults gets the totals and the statistics
\* printed and reads b.tpsHistory again (line 642); printFinalReport and
\* Start return
StartSaveResults ==
    /\ startPc = "save"
    /\ \E fileCreated \in BOOLEAN :
         report' =
           [report EXCEPT
              !.made = TRUE,
              !.saved = saveResults(report.totalSubmitted, report.totalErrors,
                                    [min |-> report.minTPS,
                                     max |-> report.peakTPS,
                                     median |-> report.medianTPS],
                                    fileCreated)]
    /\ startPc' = "done"
    /\ UNCHANGED <<confVars, offRun, acctVars, benchVars, finalSent, finalErrors,
                   finalLatency, workerVars, repVars, logVars>>

\* ------------------------------------------------------ Benchmark.senderWorker
\* mutant: the worker never observes the stop signal
StopObserved_Never(ch) == FALSE

\* the receive on b.stopChan in the select of line 383 is ready iff closed
StopObserved(ch) == ch

\* lines 383-385 and the deferred b.wg.Done() of line 369
WorkerStop(w) ==
    /\ pc[w] = "select"
    /\ StopObserved(stopChan)
    /\ pc' = [pc EXCEPT ![w] = "done"]
    /\ wg' = wg - 1
    /\ UNCHANGED <<confVars, offRun, acctVars, sentCount, errorCount, totalLatency,
                   tpsHistory, stopChan, stopMetricsChan, startVars, retry,
                   maxRetries, consecutiveErrors, firstTransaction, txNonce,
                   txTarget, latency, repVars, logVars>>

\* lines 386-397: default branch, a new transaction begins
WorkerBegin(w) ==
    /\ pc[w] = "select"
    /\ ~StopObserved(stopChan)
    /\ started < TxBudget
    /\ started' = started + 1
    /\ begun' = (w :> (BegunBy(w) + 1)) @@ begun
    /\ maxRetries' = [maxRetries EXCEPT ![w] = MaxRetriesFor(firstTransaction[w])]
    /\ retry' = [retry EXCEPT ![w] = 0]
    /\ latency' = [latency EXCEPT ![w] = 0]
    /\ pc' = [pc EXCEPT ![w] = "send"]
    /\ UNCHANGED <<confVars, offRun, acctVars, benchVars, startVars,
                   consecutiveErrors, firstTransaction, txNonce, txTarget,
                   repVars, graceElapsed, atSnapshot, netLog>>

\* lines 399, 464-477: sendTransaction allocates the nonce and builds the tx
WorkerSend(w) ==
    /\ pc[w] = "send"
    /\ LET a == AccountOf(w)
           r == GetNextNonce(nonce[a])
       IN /\ ~mu[a]
          /\ mu' = [mu EXCEPT ![a] = r.locked]
          /\ txNonce' = [txNonce EXCEPT ![w] = r.ret]
          /\ nonce' = [nonce EXCEPT ![a] = r.nonce]
          /\ txTarget' = [txTarget EXCEPT ![w] = TargetIndex(a, numAccounts)]
          /\ returned' = [returned EXCEPT ![a] = @ \cup {r.ret}]
    /\ pc' = [pc EXCEPT ![w] = "inflight"]
    /\ UNCHANGED <<confVars, setupVars, checkLocals, statsVars, tickerVars,
                   netPending,
                   accSent, accErrors, benchVars, startVars, retry,
                   maxRetries, consecutiveErrors, firstTransaction, latency,
                   repVars, runLog, accepted, acceptedLatency,
                   acceptedNonces, exhausted, nonceErrors>>

\* lines 484-489, 400-402: the submission returns nil after lat time units
WorkerSuccess(w, lat) ==
    /\ pc[w] = "inflight"
    /\ latency' = [latency EXCEPT ![w] = lat]
    /\ pc' = [pc EXCEPT ![w] = "addSent"]
    /\ accepted' = [accepted EXCEPT ![AccountOf(w)] = @ + 1]
    /\ acceptedLatency' = acceptedLatency + lat
    /\ acceptedNonces' = [acceptedNonces EXCEPT ![AccountOf(w)] =
                              @ \cup {txNonce[w]}]
    /\ netPending' = [netPending EXCEPT ![AccountOf(w)] =
                          PendingAfterAccept(@, txNonce[w])]
    /\ UNCHANGED <<confVars, toolVars, acctVars, benchVars, startVars, retry,
                   maxRetries, consecutiveErrors, firstTransaction, txNonce,
                   txTarget, repVars, runLog, returned, exhausted,
                   nonceErrors>>

\* line 404
WorkerAddSent(w) ==
    /\ pc[w] = "addSent"
    /\ sentCount' = sentCount + 1
    /\ pc' = [pc EXCEPT ![w] = "addLatency"]
    /\ UNCHANGED <<confVars, offRun, acctVars, errorCount, totalLatency, tpsHistory,
                   stopChan, stopMetricsChan, wg, startVars, retry,
                   maxRetries, consecutiveErrors, firstTransaction, txNonce,
                   txTarget, latency, repVars, logVars>>

\* line 405
WorkerAddLatency(w) ==
    /\ pc[w] = "addLatency"
    /\ totalLatency' = totalLatency + latency[w]
    /\ pc' = [pc EXCEPT ![w] = "addAccSent"]
    /\ UNCHANGED <<confVars, offRun, acctVars, sentCount, errorCount, tpsHistory,
                   stopChan, stopMetricsChan, wg, startVars, retry,
                   maxRetries, consecutiveErrors, firstTransaction, txNonce,
                   txTarget, latency, repVars, logVars>>

\* mutant: a success leaves the consecutive-error counter as it was
WorkerAddAccountSent_NoReset(w) ==
    /\ pc[w] = "addAccSent"
    /\ accSent' = [accSent EXCEPT ![AccountOf(w)] = @ + 1]
    /\ firstTransaction' = [firstTransaction EXCEPT ![w] = FALSE]
    /\ retry' = [retry EXCEPT ![w] = 0]
    /\ maxRetries' = [maxRetries EXCEPT ![w] = maxRetriesPerNonce]
    /\ latency' = [latency EXCEPT ![w] = 0]
    /\ txNonce' = [txNonce EXCEPT ![w] = 0]
    /\ txTarget' = [txTarget EXCEPT ![w] = 0]
    /\ pc' = [pc EXCEPT ![w] = "select"]
    /\ UNCHANGED <<confVars, offRun, nonce, accErrors, benchVars, startVars,
                   consecutiveErrors, repVars, logVars>>

\* lines 406-409, then 430 (err = nil) and back to the select
WorkerAddAccountSent(w) ==
    /\ pc[w] = "addAccSent"
    /\ accSent' = [accSent EXCEPT ![AccountOf(w)] = @ + 1]
    /\ consecutiveErrors' = [consecutiveErrors EXCEPT ![w] = 0]
    /\ firstTransaction' = [firstTransaction EXCEPT ![w] = FALSE]
    /\ retry' = [retry EXCEPT ![w] = 0]
    /\ maxRetries' = [maxRetries EXCEPT ![w] = maxRetriesPerNonce]
    /\ latency' = [latency EXCEPT ![w] = 0]
    /\ txNonce' = [txNonce EXCEPT ![w] = 0]
    /\ txTarget' = [txTarget EXCEPT ![w] = 0]
    /\ pc' = [pc EXCEPT ![w] = "select"]
    /\ UNCHANGED <<confVars, offRun, nonce, accErrors, benchVars, startVars, repVars,
                   logVars>>

\* mutant: a nonce-class error is counted as a failed transaction
WorkerNonceError_Counted(w, e) ==
    /\ pc[w] = "inflight"
    /\ IsNonceErr(e)
    /\ pc' = [pc EXCEPT ![w] = "addErr"]
    /\ nonceErrors' = [nonceErrors EXCEPT ![AccountOf(w)] = @ + 1]
    /\ UNCHANGED <<confVars, offRun, acctVars, benchVars, startVars, retry,
                   maxRetries, consecutiveErrors, firstTransaction, txNonce,
                   txTarget, latency, repVars, runLog, returned, accepted,
                   acceptedLatency, acceptedNonces, exhausted>>

\* mutant: a nonce-class error is retried like a transient one
WorkerNonceError_Retried(w, e) ==
    /\ pc[w] = "inflight"
    /\ IsNonceErr(e)
    /\ retry' = [retry EXCEPT ![w] = @ + 1]
    /\ pc' = [pc EXCEPT ![w] =
                IF retry[w] < maxRetries[w] - 1 THEN "send" ELSE "select"]
    /\ nonceErrors' = [nonceErrors EXCEPT ![AccountOf(w)] = @ + 1]
    /\ UNCHANGED <<confVars, offRun, acctVars, benchVars, startVars, maxRetries,
                   consecutiveErrors, firstTransaction, txNonce, txTarget,
                   latency, repVars, runLog, returned, accepted,
                   acceptedLatency, acceptedNonces, exhausted>>

\* lines 413-419, then 430-431 and 442-445: a nonce-class error
WorkerNonceError(w, e) ==
    /\ pc[w] = "inflight"
    /\ IsNonceErr(e)
    /\ consecutiveErrors' = [consecutiveErrors EXCEPT ![w] = 0]
    /\ firstTransaction' = [firstTransaction EXCEPT ![w] = FALSE]
    /\ retry' = [retry EXCEPT ![w] = 0]
    /\ maxRetries' = [maxRetries EXCEPT ![w] = maxRetriesPerNonce]
    /\ latency' = [latency EXCEPT ![w] = 0]
    /\ txNonce' = [txNonce EXCEPT ![w] = 0]
    /\ txTarget' = [txTarget EXCEPT ![w] = 0]
    /\ pc' = [pc EXCEPT ![w] = "select"]
    /\ nonceErrors' = [nonceErrors EXCEPT ![AccountOf(w)] = @ + 1]
    /\ UNCHANGED <<confVars, offRun, acctVars, benchVars, startVars, repVars,
                   runLog, returned, accepted, acceptedLatency,
                   acceptedNonces, exhausted>>

\* lines 421-426: any other error; retry, or leave the loop with err set
WorkerTransientError(w, e) ==
    /\ pc[w] = "inflight"
    /\ ~IsNonceErr(e)
    /\ retry' = [retry EXCEPT ![w] = @ + 1]
    /\ pc' = [pc EXCEPT ![w] =
                IF retry[w] < maxRetries[w] - 1
                THEN "send"     \* line 424: sleep 1ms, retry++, next attempt
                ELSE "addErr"]  \* retry++ ends the loop with err set
    /\ exhausted' = [exhausted EXCEPT ![AccountOf(w)] =
                        IF retry[w] + 1 = MaxRetriesFor(firstTransaction[w])
                        THEN @ + 1 ELSE @]
    /\ UNCHANGED <<confVars, offRun, acctVars, benchVars, startVars, maxRetries,
                   consecutiveErrors, firstTransaction, txNonce, txTarget,
                   latency, repVars, runLog, returned, accepted,
                   acceptedLatency, acceptedNonces, nonceErrors>>

\* mutant: the failed transaction is not added to the global error counter
WorkerAddError_NoCount(w) ==
    /\ pc[w] = "addErr"
    /\ errorCount' = errorCount
    /\ pc' = [pc EXCEPT ![w] = "addAccErr"]
    /\ UNCHANGED <<confVars, offRun, acctVars, sentCount, totalLatency, tpsHistory,
                   stopChan, stopMetricsChan, wg, startVars, retry,
                   maxRetries, consecutiveErrors, firstTransaction, txNonce,
                   txTarget, latency, repVars, logVars>>

\* lines 430-433
WorkerAddError(w) ==
    /\ pc[w] = "addErr"
    /\ errorCount' = errorCount + 1
    /\ pc' = [pc EXCEPT ![w] = "addAccErr"]
    /\ UNCHANGED <<confVars, offRun, acctVars, sentCount, totalLatency, tpsHistory,
                   stopChan, stopMetricsChan, wg, startVars, retry,
                   maxRetries, consecutiveErrors, firstTransaction, txNonce,
                   txTarget, latency, repVars, logVars>>

\* lines 434-440
WorkerAddAccountError(w) ==
    /\ pc[w] = "addAccErr"
    /\ accErrors' = [accErrors EXCEPT ![AccountOf(w)] = @ + 1]
    /\ consecutiveErrors' = [consecutiveErrors EXCEPT ![w] = @ + 1]
    /\ retry' = [retry EXCEPT ![w] = 0]
    /\ maxRetries' = [maxRetries EXCEPT ![w] = maxRetriesPerNonce]
    /\ txNonce' = [txNonce EXCEPT ![w] = 0]
    /\ txTarget' = [txTarget EXCEPT ![w] = 0]
    /\ pc' = [pc EXCEPT ![w] =
                IF BackoffSleep(consecutiveErrors[w] + 1) > 0
                THEN "backoff" ELSE "select"]
    /\ UNCHANGED <<confVars, offRun, nonce, accSent, benchVars, startVars,
                   firstTransaction, latency, repVars, logVars>>

\* line 439 returns
WorkerBackoff(w) ==
    /\ pc[w] = "backoff"
    /\ pc' = [pc EXCEPT ![w] = "select"]
    /\ UNCHANGED <<confVars, offRun, acctVars, benchVars, startVars, retry,
                   maxRetries, consecutiveErrors, firstTransaction, txNonce,
                   txTarget, latency, repVars, logVars>>

\* ---------------------------------------------------- Benchmark.metricsReporter
\* lines 508-510: the ticker fires
RepTickLoadSent ==
    /\ repPc = "select"
    /\ reportCount < TickBudget
    /\ reportCount' = reportCount + 1
    /\ repSent' = sentCount
    /\ repPc' = "loadErrors"
    /\ UNCHANGED <<confVars, offRun, acctVars, benchVars, startVars, workerVars,
                   lastSent, repErrors, repLatency, lastLine, logVars>>

\* line 511
RepTickLoadErrors ==
    /\ repPc = "loadErrors"
    /\ repErrors' = errorCount
    /\ repPc' = "loadLatency"
    /\ UNCHANGED <<confVars, offRun, acctVars, benchVars, startVars, workerVars,
                   lastSent, reportCount, repSent, repLatency, lastLine,
                   logVars>>

\* line 512
RepTickLoadLatency ==
    /\ repPc = "loadLatency"
    /\ repLatency' = totalLatency
    /\ repPc' = "append"
    /\ UNCHANGED <<confVars, offRun, acctVars, benchVars, startVars, workerVars,
                   lastSent, reportCount, repSent, repErrors, lastLine,
                   logVars>>

\* mutant: the tick forgets the value of sent it has read
RepTickAppend_NoLastSent ==
    /\ repPc = "append"
    /\ LET submittedTPS == repSent - lastSent
           avgLatency == IF repSent > 0 THEN repLatency \div repSent ELSE 0
       IN /\ tpsHistory' = Append(tpsHistory, submittedTPS)
          /\ lastLine' = [printed |-> TRUE, tps |-> submittedTPS,
                          sent |-> repSent, errors |-> repErrors,
                          avgLatency |-> avgLatency]
    /\ lastSent' = lastSent
    /\ repSent' = 0
    /\ repErrors' = 0
    /\ repLatency' = 0
    /\ repPc' = "select"
    /\ UNCHANGED <<confVars, offRun, acctVars, sentCount, errorCount, totalLatency,
                   stopChan, stopMetricsChan, wg, startVars, workerVars,
                   reportCount, logVars>>

\* lines 514-527: the sample is appended to b.tpsHistory without a lock, the
\* line is printed, lastSent = sent
RepTickAppend ==
    /\ repPc = "append"
    /\ LET submittedTPS == repSent - lastSent
           avgLatency == IF repSent > 0 THEN repLatency \div repSent ELSE 0
       IN /\ tpsHistory' = Append(tpsHistory, submittedTPS)
          /\ lastLine' = [printed |-> TRUE, tps |-> submittedTPS,
                          sent |-> repSent, errors |-> repErrors,
                          avgLatency |-> avgLatency]
    /\ lastSent' = repSent
    /\ repSent' = 0
    /\ repErrors' = 0
    /\ repLatency' = 0
    /\ repPc' = "select"
    /\ UNCHANGED <<confVars, offRun, acctVars, sentCount, errorCount, totalLatency,
                   stopChan, stopMetricsChan, wg, startVars, workerVars,
                   reportCount, logVars>>

\* lines 506-507
RepStop ==
    /\ repPc = "select"
    /\ stopMetricsChan
    /\ repPc' = "done"
    /\ UNCHANGED <<confVars, offRun, acctVars, benchVars, startVars, workerVars,
                   lastSent, reportCount, repSent, repErrors, repLatency,
                   lastLine, logVars>>

\* ---------------------------------------------------------------------- Next
Next ==
    \/ StartSpawn
    \/ StartLoadSent
    \/ StartLoadErrors
    \/ StartLoadLatency
    \/ StartCloseStop
    \/ StartWait
    \/ StartGrace
    \/ StartCloseMetrics
    \/ StartReport
    \/ StartSaveResults
    \/ \E w \in Workers : WorkerStop(w)
    \/ \E w \in Workers : WorkerBegin(w)
    \/ \E w \in Workers : WorkerSend(w)
    \/ \E w \in Workers : \E lat \in Latencies : WorkerSuccess(w, lat)
    \/ \E w \in Workers : WorkerAddSent(w)
    \/ \E w \in Workers : WorkerAddLatency(w)
    \/ \E w \in Workers : WorkerAddAccountSent(w)
    \/ \E w \in Workers : \E e \in ErrorMessages : WorkerNonceError(w, e)
    \/ \E w \in Workers : \E e \in ErrorMessages : WorkerTransientError(w, e)
    \/ \E w \in Workers : WorkerAddError(w)
    \/ \E w \in Workers : WorkerAddAccountError(w)
    \/ \E w \in Workers : WorkerBackoff(w)
    \/ RepTickLoadSent
    \/ RepTickLoadErrors
    \/ RepTickLoadLatency
    \/ RepTickAppend
    \/ RepStop

Spec == Init /\ [][Next]_vars

\* --------------------------------------------------------- cmd/benchmark main
\* lines 1011-1015: the keys main passes to InitializeAccounts
KeysUsed(fileGiven, n, keys) ==
    IF fileGiven /\ n > 0 /\ n < keys THEN n ELSE keys

\* mutant: only the last account's balance decides
CheckBalances_LastOnly(bals) ==
    Len(bals) > 0 /\ bals[Len(bals)] < minBalance

\* CheckBalances, lines 157-192: TRUE iff it returns an error for balances
\* it could read
CheckBalances(bals) ==
    \E i \in 1 .. Len(bals) : bals[i] < minBalance

\* log.Fatalf: the process exits
Abort(step) ==
    /\ setupPc' = "aborted"
    /\ setupLog' = [setupLog EXCEPT !.failedAt = step]

SetupInit ==
    /\ \E inp \in SetupInputs :
         /\ configFileGiven = inp.file
         /\ cfgNumAccounts = inp.accounts
         /\ cfgSenders = inp.senders
         /\ keysInFile = inp.keys
    /\ cfgDuration = RunConfig.DurationSeconds
    /\ cfgMaxRetries = RunConfig.MaxRetries
    /\ cfgRetryDelay = RunConfig.RetryDelay
    /\ cfgWarmupDuration = RunConfig.WarmupDuration
    /\ setupPc = "connect"
    /\ setupLog = [failedAt |-> "none", balances |-> <<>>]
    /\ numAccounts = 0
    /\ initNonce = <<>> /\ nonce = <<>> /\ netPending = <<>>
    /\ accSent = <<>> /\ accErrors = <<>> /\ mu = <<>>
    /\ sentCount = 0 /\ errorCount = 0 /\ totalLatency = 0
    /\ tpsHistory = <<>>
    /\ stopChan = FALSE /\ stopMetricsChan = FALSE
    /\ wg = 0
    /\ startPc = "notStarted"
    /\ finalSent = 0 /\ finalErrors = 0 /\ finalLatency = 0
    /\ report = [made |-> FALSE]
    /\ pc = <<>> /\ retry = <<>> /\ maxRetries = <<>>
    /\ consecutiveErrors = <<>> /\ firstTransaction = <<>>
    /\ txNonce = <<>> /\ txTarget = <<>> /\ latency = <<>>
    /\ repPc = "unspawned"
    /\ lastSent = 0 /\ reportCount = 0 /\ repSent = 0 /\ repErrors = 0
    /\ repLatency = 0
    /\ lastLine = [printed |-> FALSE]
    /\ started = 0 /\ begun = <<>>
    /\ graceElapsed = FALSE
    /\ atSnapshot = [taken |-> FALSE]
    /\ returned = <<>> /\ accepted = <<>> /\ acceptedLatency = 0
    /\ acceptedNonces = <<>> /\ exhausted = <<>> /\ nonceErrors = <<>>
    /\ checkPc = "off" /\ checkIdx = 0
    /\ nextConfirmedNonce = 0 /\ nextPendingNonce = 0 /\ localNonce = 0
    /\ lastResync = [called |-> FALSE]
    /\ lastRow = [printed |-> FALSE]
    /\ totalPending = 0 /\ allSynced = TRUE
    /\ statsPc = "off" /\ statsIn = <<>> /\ statsOut = [computed |-> FALSE]
    /\ intervalInFile = [present |-> FALSE, value |-> 0]
    /\ cfgReportInterval = defaultReportInterval
    /\ tickerPc = "off" /\ tickerPeriod = 0 /\ clock = 0 /\ ticks = 0

\* what no setup step changes
SetupFrame ==
    UNCHANGED <<cfgSenders, cfgDuration, cfgMaxRetries, cfgRetryDelay,
                cfgWarmupDuration, configFileGiven, cfgNumAccounts, keysInFile,
                benchVars, finalSent, finalErrors, finalLatency, report,
                workerVars, repVars, runLog, acceptedLatency, checkPc,
                checkIdx, nextConfirmedNonce, nextPendingNonce, localNonce,
                lastResync, lastRow, totalPending, allSynced, statsVars,
                tickerVars>>

AccountsUntouched ==
    UNCHANGED <<numAccounts, initNonce, acctVars, netPending, mu, returned,
                accepted, acceptedNonces, exhausted, nonceErrors>>

\* lines 985-992: CreateOptimizedClient
SetupConnect(ok) ==
    /\ setupPc = "connect"
    /\ IF ok THEN setupPc' = "chainID" /\ UNCHANGED setupLog
       ELSE Abort("connect")
    /\ UNCHANGED startPc
    /\ AccountsUntouched /\ SetupFrame

\* lines 994-999: client.ChainID
SetupChainID(ok) ==
    /\ setupPc = "chainID"
    /\ IF ok THEN setupPc' = "loadKeys" /\ UNCHANGED setupLog
       ELSE Abort("chainID")
    /\ UNCHANGED startPc
    /\ AccountsUntouched /\ SetupFrame

\* lines 1001-1015: LoadPrivateKeys, then the limit to config.NumAccounts
SetupLoadKeys(ok) ==
    /\ setupPc = "loadKeys"
    /\ IF ok
       THEN /\ setupPc' = "initAccounts"
            /\ numAccounts' = KeysUsed(configFileGiven, cfgNumAccounts,
                                       keysInFile)
            /\ UNCHANGED setupLog
       ELSE Abort("loadKeys") /\ UNCHANGED numAccounts
    /\ UNCHANGED <<startPc, initNonce, acctVars, netPending, mu, returned,
                   accepted, acceptedNonces, exhausted, nonceErrors>>
    /\ SetupFrame

\* lines 1017-1021 and InitializeAccounts, lines 110-155: one AccountSender
\* per key, its nonce the pending nonce of the network; any failed query
\* (chain id, pending nonce, balance) fails the call
SetupInitializeAccounts(ok) ==
    /\ setupPc = "initAccounts"
    /\ IF ok
       THEN LET zero == [a \in Accounts |-> 0]
                none == [a \in Accounts |-> {}]
                init == [a \in Accounts |-> InitNonceOf(a)]
            IN /\ setupPc' = "checkBalances"
               /\ initNonce' = init /\ nonce' = init /\ netPending' = init
               /\ accSent' = zero /\ accErrors' = zero
               /\ mu' = [a \in Accounts |-> FALSE]
               /\ returned' = none /\ acceptedNonces' = none
               /\ accepted' = zero /\ exhausted' = zero
               /\ nonceErrors' = zero
               /\ UNCHANGED setupLog
       ELSE /\ Abort("initAccounts")
            /\ UNCHANGED <<initNonce, acctVars, netPending, mu, returned,
                           accepted, acceptedNonces, exhausted, nonceErrors>>
    /\ UNCHANGED <<startPc, numAccounts>>
    /\ SetupFrame

\* lines 1023-1028 and CheckBalances: a failed query or a balance below the
\* minimum fails the call
SetupCheckBalances(ok, bals) ==
    /\ setupPc = "checkBalances"
    /\ IF ok /\ ~CheckBalances(bals)
       THEN /\ setupPc' = "newBenchmark"
            /\ setupLog' = [setupLog EXCEPT !.balances = bals]
       ELSE /\ setupPc' = "aborted"
            /\ setupLog' = [failedAt |-> "checkBalances",
                            balances |-> IF ok THEN bals ELSE <<>>]
    /\ UNCHANGED startPc
    /\ AccountsUntouched /\ SetupFrame

\* lines 1030-1034 and NewBenchmark, lines 282-313: SuggestGasPrice
SetupNewBenchmark(ok) ==
    /\ setupPc = "newBenchmark"
    /\ IF ok THEN setupPc' = "confirm" /\ UNCHANGED setupLog
       ELSE Abort("newBenchmark")
    /\ UNCHANGED startPc
    /\ AccountsUntouched /\ SetupFrame

\* lines 1036-1040: the 5 s sleep returns and main calls benchmark.Start()
SetupStart ==
    /\ setupPc = "confirm"
    /\ setupPc' = "ready"
    /\ startPc' = "spawn"
    /\ UNCHANGED setupLog
    /\ AccountsUntouched /\ SetupFrame

SetupNext ==
    \/ \E ok \in BOOLEAN : SetupConnect(ok)
    \/ \E ok \in BOOLEAN : SetupChainID(ok)
    \/ \E ok \in BOOLEAN : SetupLoadKeys(ok)
    \/ \E ok \in BOOLEAN : SetupInitializeAccounts(ok)
    \/ \E ok \in BOOLEAN : \E bals \in [1 .. numAccounts -> Balances] :
         SetupCheckBalances(ok, bals)
    \/ \E ok \in BOOLEAN : SetupNewBenchmark(ok)
    \/ SetupStart
    \/ Next

SpecSetup == SetupInit /\ [][SetupNext]_vars

\* -------------------------------------------------------------- cmd/check main
\* the state of cmd/check after InitializeAccounts returned; no Benchmark is
\* constructed
CheckInit ==
    /\ numAccounts \in CheckAccounts
    /\ cfgSenders = 0
    /\ cfgDuration = RunConfig.DurationSeconds
    /\ cfgMaxRetries = RunConfig.MaxRetries
    /\ cfgRetryDelay = RunConfig.RetryDelay
    /\ cfgWarmupDuration = RunConfig.WarmupDuration
    /\ initNonce = [a \in 0 .. (numAccounts - 1) |-> InitNonceOf(a)]
    /\ nonce = initNonce /\ netPending = initNonce
    /\ accSent = [a \in 0 .. (numAccounts - 1) |-> 0]
    /\ accErrors = [a \in 0 .. (numAccounts - 1) |-> 0]
    /\ mu = [a \in 0 .. (numAccounts - 1) |-> FALSE]
    /\ sentCount = 0 /\ errorCount = 0 /\ totalLatency = 0
    /\ tpsHistory = <<>>
    /\ stopChan = FALSE /\ stopMetricsChan = FALSE
    /\ wg = 0
    /\ startPc = "notStarted"
    /\ finalSent = 0 /\ finalErrors = 0 /\ finalLatency = 0
    /\ report = [made |-> FALSE]
    /\ pc = <<>> /\ retry = <<>> /\ maxRetries = <<>>
    /\ consecutiveErrors = <<>> /\ firstTransaction = <<>>
    /\ txNonce = <<>> /\ txTarget = <<>> /\ latency = <<>>
    /\ repPc = "unspawned"
    /\ lastSent = 0 /\ reportCount = 0 /\ repSent = 0 /\ repErrors = 0
    /\ repLatency = 0
    /\ lastLine = [printed |-> FALSE]
    /\ started = 0 /\ begun = <<>>
    /\ graceElapsed = FALSE
    /\ atSnapshot = [taken |-> FALSE]
    /\ returned = [a \in 0 .. (numAccounts - 1) |-> {}]
    /\ accepted = [a \in 0 .. (numAccounts - 1) |-> 0]
    /\ acceptedLatency = 0
    /\ acceptedNonces = [a \in 0 .. (numAccounts - 1) |-> {}]
    /\ exhausted = [a \in 0 .. (numAccounts - 1) |-> 0]
    /\ nonceErrors = [a \in 0 .. (numAccounts - 1) |-> 0]
    /\ setupPc = "off" /\ configFileGiven = TRUE
    /\ cfgNumAccounts = 0 /\ keysInFile = numAccounts
    /\ setupLog = [failedAt |-> "none", balances |-> <<>>]
    /\ checkPc = "confirmed" /\ checkIdx = 0
    /\ nextConfirmedNonce = 0 /\ nextPendingNonce = 0 /\ localNonce = 0
    /\ lastResync = [called |-> FALSE]
    /\ lastRow = [printed |-> FALSE]
    /\ totalPending = 0 /\ allSynced = TRUE
    /\ statsPc = "off" /\ statsIn = <<>> /\ statsOut = [computed |-> FALSE]
    /\ intervalInFile = [present |-> FALSE, value |-> 0]
    /\ cfgReportInterval = defaultReportInterval
    /\ tickerPc = "off" /\ tickerPeriod = 0 /\ clock = 0 /\ ticks = 0

\* what cmd/check never touches
CheckFrame ==
    UNCHANGED <<confVars, accSent, accErrors, benchVars, startVars,
                workerVars, repVars, logVars, setupVars, statsVars,
                tickerVars>>

\* the loop of line 107 moves to the next account, or ends
NextAccountPc == IF checkIdx + 1 < numAccounts THEN "confirmed" ELSE "summary"

\* other clients of the network: a transaction of the account enters the
\* pool, or one leaves it unmined
NetworkMoves(a, d) ==
    /\ checkPc \notin {"off", "done"}
    /\ netPending[a] + d >= InitNonceOf(a) - MaxDrift
    /\ netPending[a] + d <= InitNonceOf(a) + MaxDrift
    /\ netPending' = [netPending EXCEPT ![a] = @ + d]
    /\ UNCHANGED <<nonce, checkVars>>
    /\ CheckFrame

\* lines 108-113: client.NonceAt; on an error the account is skipped
CheckQueryConfirmed(ok, pendingTxs) ==
    /\ checkPc = "confirmed"
    /\ IF ok
       THEN /\ nextConfirmedNonce' = netPending[checkIdx] - pendingTxs
            /\ checkPc' = "pending"
            /\ UNCHANGED checkIdx
       ELSE /\ checkPc' = NextAccountPc
            /\ checkIdx' = checkIdx + 1
            /\ UNCHANGED nextConfirmedNonce
    /\ UNCHANGED <<nonce, netPending, mu, nextPendingNonce, localNonce,
                   lastResync, lastRow, totalPending, allSynced>>
    /\ CheckFrame

\* lines 115-120: client.PendingNonceAt; on an error the account is skipped
CheckQueryPending(ok) ==
    /\ checkPc = "pending"
    /\ IF ok
       THEN /\ nextPendingNonce' = netPending[checkIdx]
            /\ checkPc' = "resync"
            /\ UNCHANGED checkIdx
       ELSE /\ checkPc' = NextAccountPc
            /\ checkIdx' = checkIdx + 1
            /\ UNCHANGED nextPendingNonce
    /\ UNCHANGED <<nonce, netPending, mu, nextConfirmedNonce, localNonce,
                   lastResync, lastRow, totalPending, allSynced>>
    /\ CheckFrame

\* line 130 and ResyncNonce, lines 211-214: a.mu.Lock(), the query is sent
CheckResyncLock ==
    /\ checkPc = "resync"
    /\ ~mu[checkIdx]
    /\ mu' = [mu EXCEPT ![checkIdx] = TRUE]
    /\ checkPc' = "resyncQuery"
    /\ UNCHANGED <<nonce, netPending, checkIdx, nextConfirmedNonce,
                   nextPendingNonce, localNonce, lastResync, lastRow,
                   totalPending, allSynced>>
    /\ CheckFrame

\* ResyncNonce, lines 214-220: the query returns, the nonce is written on
\* success, the deferred Unlock runs; main drops the returned error
CheckResyncReturn(ok) ==
    /\ checkPc = "resyncQuery"
    /\ LET answer == [ok |-> ok, value |-> netPending[checkIdx]]
           r == ResyncNonce(nonce[checkIdx], answer)
       IN /\ nonce' = [nonce EXCEPT ![checkIdx] = r.nonce]
          /\ lastResync' = [called |-> TRUE, ok |-> ok,
                            value |-> answer.value,
                            before |-> nonce[checkIdx]]
    /\ mu' = [mu EXCEPT ![checkIdx] = FALSE]
    /\ checkPc' = "current"
    /\ UNCHANGED <<netPending, checkIdx, nextConfirmedNonce,
                   nextPendingNonce, localNonce, lastRow, totalPending,
                   allSynced>>
    /\ CheckFrame

\* lines 122-126, 133-149: the status of the row
RowStatus(confirmed, pending, local) ==
    IF local > pending THEN "localAhead"
    ELSE IF pending > confirmed THEN "pending"
    ELSE "synced"

\* lines 131-153: CurrentNonce, then the row is printed
CheckCurrentNonce ==
    /\ checkPc = "current"
    /\ ~mu[checkIdx]
    /\ LET local == CurrentNonce(nonce[checkIdx])
           pendingTxs == nextPendingNonce - nextConfirmedNonce
           status == RowStatus(nextConfirmedNonce, nextPendingNonce, local)
       IN /\ localNonce' = local
          /\ totalPending' = IF pendingTxs > 0 THEN totalPending + pendingTxs
                                               ELSE totalPending
          /\ allSynced' = (allSynced /\ status = "synced")
          /\ lastRow' =
                 [printed |-> TRUE,
                  account |-> checkIdx,
                  lastConfirmed |-> IF nextConfirmedNonce > 0
                                    THEN nextConfirmedNonce - 1 ELSE 0,
                  nextPending |-> nextPendingNonce,
                  local |-> local,
                  status |-> status]
    /\ checkPc' = NextAccountPc
    /\ checkIdx' = checkIdx + 1
    /\ UNCHANGED <<nonce, netPending, mu, nextConfirmedNonce,
                   nextPendingNonce, lastResync>>
    /\ CheckFrame

\* lines 156-168: the summary is printed and main returns
CheckSummary ==
    /\ checkPc = "summary"
    /\ checkPc' = "done"
    /\ UNCHANGED <<nonce, netPending, mu, checkIdx, nextConfirmedNonce,
                   nextPendingNonce, localNonce, lastResync, lastRow,
                   totalPending, allSynced>>
    /\ CheckFrame

CheckNext ==
    \/ \E a \in Accounts : \E d \in {-1, 1} : NetworkMoves(a, d)
    \/ \E ok \in BOOLEAN : \E pendingTxs \in {0, 1} :
         CheckQueryConfirmed(ok, pendingTxs)
    \/ \E ok \in BOOLEAN : CheckQueryPending(ok)
    \/ CheckResyncLock
    \/ \E ok \in BOOLEAN : CheckResyncReturn(ok)
    \/ CheckCurrentNonce
    \/ CheckSummary

SpecCheck == CheckInit /\ [][CheckNext]_vars

\* -------------------------------------------- AccountSender, any caller
\* The exported methods of an AccountSender under goroutines that call
\* them in any order and at any time: two callers on one account, or one
\* caller on each of two accounts. The benchmark calls GetNextNonce, the
\* check tool ResyncNonce and CurrentNonce, and no program of the
\* repository calls IncrementNonce. A method holds a.mu from its first
\* statement to its return, ResyncNonce through its network call; pc[w] is
\* the method caller w is in, "idle" between two calls.
SenderInit ==
    /\ \E callers \in {1, 2} :
         /\ numAccounts = 3 - callers
         /\ pc = [w \in (0 .. (2 - callers)) \X (0 .. (callers - 1))
                     |-> "idle"]
         /\ txNonce = [w \in (0 .. (2 - callers)) \X (0 .. (callers - 1))
                          |-> 0]
    /\ cfgSenders = 0
    /\ cfgDuration = RunConfig.DurationSeconds
    /\ cfgMaxRetries = RunConfig.MaxRetries
    /\ cfgRetryDelay = RunConfig.RetryDelay
    /\ cfgWarmupDuration = RunConfig.WarmupDuration
    /\ initNonce = [a \in 0 .. (numAccounts - 1) |-> InitNonceOf(a)]
    /\ nonce = initNonce /\ netPending = initNonce
    /\ accSent = [a \in 0 .. (numAccounts - 1) |-> 0]
    /\ accErrors = [a \in 0 .. (numAccounts - 1) |-> 0]
    /\ mu = [a \in 0 .. (numAccounts - 1) |-> FALSE]
    /\ sentCount = 0 /\ errorCount = 0 /\ totalLatency = 0
    /\ tpsHistory = <<>>
    /\ stopChan = FALSE /\ stopMetricsChan = FALSE
    /\ wg = 0
    /\ startPc = "notStarted"
    /\ finalSent = 0 /\ finalErrors = 0 /\ finalLatency = 0
    /\ report = [made |-> FALSE]
    /\ retry = <<>> /\ maxRetries = <<>>
    /\ consecutiveErrors = <<>> /\ firstTransaction = <<>>
    /\ txTarget = <<>> /\ latency = <<>>
    /\ repPc = "unspawned"
    /\ lastSent = 0 /\ reportCount = 0 /\ repSent = 0 /\ repErrors = 0
    /\ repLatency = 0
    /\ lastLine = [printed |-> FALSE]
    /\ started = 0 /\ begun = <<>>
    /\ graceElapsed = FALSE
    /\ atSnapshot = [taken |-> FALSE]
    /\ returned = [a \in 0 .. (numAccounts - 1) |-> {}]
    /\ accepted = [a \in 0 .. (numAccounts - 1) |-> 0]
    /\ acceptedLatency = 0
    /\ acceptedNonces = [a \in 0 .. (numAccounts - 1) |-> {}]
    /\ exhausted = [a \in 0 .. (numAccounts - 1) |-> 0]
    /\ nonceErrors = [a \in 0 .. (numAccounts - 1) |-> 0]
    /\ setupPc = "off" /\ configFileGiven = TRUE
    /\ cfgNumAccounts = 0 /\ keysInFile = numAccounts
    /\ setupLog = [failedAt |-> "none", balances |-> <<>>]
    /\ checkPc = "off" /\ checkIdx = 0
    /\ nextConfirmedNonce = 0 /\ nextPendingNonce = 0 /\ localNonce = 0
    /\ lastResync = [called |-> FALSE]
    /\ lastRow = [printed |-> FALSE]
    /\ totalPending = 0 /\ allSynced = TRUE
    /\ statsPc = "off" /\ statsIn = <<>> /\ statsOut = [computed |-> FALSE]
    /\ intervalInFile = [present |-> FALSE, value |-> 0]
    /\ cfgReportInterval = defaultReportInterval
    /\ tickerPc = "off" /\ tickerPeriod = 0 /\ clock = 0 /\ ticks = 0

\* a.mu.Lock(), the first statement of GetNextNonce, IncrementNonce,
\* ResyncNonce and CurrentNonce (lines 197, 204, 211, 230): caller w enters
\* method m when the lock is free; ResyncNonce then sends its query
SenderLock(w, m) ==
    /\ pc[w] = "idle"
    /\ ~mu[AccountOf(w)]
    /\ m = "IncrementNonce" =>
           nonce[AccountOf(w)] < InitNonceOf(AccountOf(w)) + MaxTx
    /\ mu' = [mu EXCEPT ![AccountOf(w)] = TRUE]
    /\ pc' = [pc EXCEPT ![w] = m]
    /\ UNCHANGED <<nonce, localNonce, lastResync>>
    /\ UNCHANGED <<confVars, accSent, accErrors, benchVars, startVars,
                   retry, maxRetries, consecutiveErrors, firstTransaction,
                   txNonce, txTarget, latency, repVars, logVars, setupVars,
                   statsVars, tickerVars, netPending, checkPc, checkIdx,
                   nextConfirmedNonce, nextPendingNonce, lastRow, totalPending,
                   allSynced>>

\* GetNextNonce, lines 198-199: the value is returned, the deferred Unlock
\* runs
SenderGetNextNonce(w) ==
    /\ pc[w] = "GetNextNonce"
    /\ LET r == GetNextNonce(nonce[AccountOf(w)])
       IN /\ nonce' = [nonce EXCEPT ![AccountOf(w)] = r.nonce]
          /\ mu' = [mu EXCEPT ![AccountOf(w)] = r.locked]
          /\ txNonce' = [txNonce EXCEPT ![w] = r.ret]
    /\ pc' = [pc EXCEPT ![w] = "idle"]
    /\ UNCHANGED <<localNonce, lastResync>>
    /\ UNCHANGED <<confVars, accSent, accErrors, benchVars, startVars,
                   retry, maxRetries, consecutiveErrors, firstTransaction,
                   txTarget, latency, repVars, logVars, setupVars,
                   statsVars, tickerVars, netPending, checkPc, checkIdx,
                   nextConfirmedNonce, nextPendingNonce, lastRow, totalPending,
                   allSynced>>

\* IncrementNonce, lines 205-206
SenderIncrementNonce(w) ==
    /\ pc[w] = "IncrementNonce"
    /\ nonce' = [nonce EXCEPT ![AccountOf(w)] = IncrementNonce(@)]
    /\ mu' = [mu EXCEPT ![AccountOf(w)] = FALSE]
    /\ pc' = [pc EXCEPT ![w] = "idle"]
    /\ UNCHANGED <<localNonce, lastResync>>
    /\ UNCHANGED <<confVars, accSent, accErrors, benchVars, startVars,
                   retry, maxRetries, consecutiveErrors, firstTransaction,
                   txNonce, txTarget, latency, repVars, logVars, setupVars,
                   statsVars, tickerVars, netPending, checkPc, checkIdx,
                   nextConfirmedNonce, nextPendingNonce, lastRow, totalPending,
                   allSynced>>

\* ResyncNonce, lines 214-220: the query returns, the nonce is written on
\* success, the deferred Unlock runs
SenderResyncNonce(w, ok) ==
    /\ pc[w] = "ResyncNonce"
    /\ LET answer == [ok |-> ok, value |-> netPending[AccountOf(w)]]
           r == ResyncNonce(nonce[AccountOf(w)], answer)
       IN /\ nonce' = [nonce EXCEPT ![AccountOf(w)] = r.nonce]
          /\ lastResync' = [called |-> TRUE, ok |-> ok,
                            value |-> answer.value,
                            before |-> nonce[AccountOf(w)]]
    /\ mu' = [mu EXCEPT ![AccountOf(w)] = FALSE]
    /\ pc' = [pc EXCEPT ![w] = "idle"]
    /\ UNCHANGED localNonce
    /\ UNCHANGED <<confVars, accSent, accErrors, benchVars, startVars,
                   retry, maxRetries, consecutiveErrors, firstTransaction,
                   txNonce, txTarget, latency, repVars, logVars, setupVars,
                   statsVars, tickerVars, netPending, checkPc, checkIdx,
                   nextConfirmedNonce, nextPendingNonce, lastRow, totalPending,
                   allSynced>>

\* CurrentNonce, lines 231-232: the value is returned, the deferred Unlock
\* runs
SenderCurrentNonce(w) ==
    /\ pc[w] = "CurrentNonce"
    /\ localNonce' = CurrentNonce(nonce[AccountOf(w)])
    /\ mu' = [mu EXCEPT ![AccountOf(w)] = FALSE]
    /\ pc' = [pc EXCEPT ![w] = "idle"]
    /\ UNCHANGED <<nonce, lastResync>>
    /\ UNCHANGED <<confVars, accSent, accErrors, benchVars, startVars,
                   retry, maxRetries, consecutiveErrors, firstTransaction,
                   txNonce, txTarget, latency, repVars, logVars, setupVars,
                   statsVars, tickerVars, netPending, checkPc, checkIdx,
                   nextConfirmedNonce, nextPendingNonce, lastRow, totalPending,
                   allSynced>>

SenderNext ==
    \/ \E w \in Workers :
         \E m \in {"GetNextNonce", "IncrementNonce", "ResyncNonce",
                   "CurrentNonce"} : SenderLock(w, m)
    \/ \E w \in Workers : SenderGetNextNonce(w)
    \/ \E w \in Workers : SenderIncrementNonce(w)
    \/ \E w \in Workers : \E ok \in BOOLEAN : SenderResyncNonce(w, ok)
    \/ \E w \in Workers : SenderCurrentNonce(w)

SpecSender == SenderInit /\ [][SenderNext]_vars

\* ----------------------------------------------------------- calculateTPSStats
\* the function applied to a history drawn from Histories
StatsInit ==
    /\ statsPc = "input" /\ statsIn \in Histories
    /\ statsOut = [computed |-> FALSE]
    /\ numAccounts = 0 /\ cfgSenders = 0
    /\ cfgDuration = RunConfig.DurationSeconds
    /\ cfgMaxRetries = RunConfig.MaxRetries
    /\ cfgRetryDelay = RunConfig.RetryDelay
    /\ cfgWarmupDuration = RunConfig.WarmupDuration
    /\ initNonce = <<>> /\ nonce = <<>> /\ netPending = <<>>
    /\ accSent = <<>> /\ accErrors = <<>> /\ mu = <<>>
    /\ sentCount = 0 /\ errorCount = 0 /\ totalLatency = 0
    /\ tpsHistory = <<>>
    /\ stopChan = FALSE /\ stopMetricsChan = FALSE
    /\ wg = 0
    /\ startPc = "notStarted"
    /\ finalSent = 0 /\ finalErrors = 0 /\ finalLatency = 0
    /\ report = [made |-> FALSE]
    /\ pc = <<>> /\ retry = <<>> /\ maxRetries = <<>>
    /\ consecutiveErrors = <<>> /\ firstTransaction = <<>>
    /\ txNonce = <<>> /\ txTarget = <<>> /\ latency = <<>>
    /\ repPc = "unspawned"
    /\ lastSent = 0 /\ reportCount = 0 /\ repSent = 0 /\ repErrors = 0
    /\ repLatency = 0
    /\ lastLine = [printed |-> FALSE]
    /\ started = 0 /\ begun = <<>>
    /\ graceElapsed = FALSE
    /\ atSnapshot = [taken |-> FALSE]
    /\ returned = <<>> /\ accepted = <<>> /\ acceptedLatency = 0
    /\ acceptedNonces = <<>> /\ exhausted = <<>> /\ nonceErrors = <<>>
    /\ setupPc = "off" /\ configFileGiven = FALSE
    /\ cfgNumAccounts = 0 /\ keysInFile = 0
    /\ setupLog = [failedAt |-> "none", balances |-> <<>>]
    /\ checkPc = "off" /\ checkIdx = 0
    /\ nextConfirmedNonce = 0 /\ nextPendingNonce = 0 /\ localNonce = 0
    /\ lastResync = [called |-> FALSE]
    /\ lastRow = [printed |-> FALSE]
    /\ totalPending = 0 /\ allSynced = TRUE
    /\ intervalInFile = [present |-> FALSE, value |-> 0]
    /\ cfgReportInterval = defaultReportInterval
    /\ tickerPc = "off" /\ tickerPeriod = 0 /\ clock = 0 /\ ticks = 0

\* the call returns: the three results, and the caller's slice as the call
\* leaves it (an empty one returns at line 671, before the copy)
StatsCompute ==
    /\ statsPc = "input"
    /\ LET r == calculateTPSStats(statsIn)
       IN statsOut' = [computed |-> TRUE, min |-> r.min, max |-> r.max,
                       median |-> r.median,
                       history |-> IF Len(statsIn) = 0 THEN statsIn
                                   ELSE SortedCopy(statsIn).tpsHistory]
    /\ statsPc' = "returned"
    /\ UNCHANGED <<statsIn, confVars, acctVars, benchVars, startVars,
                   workerVars, repVars, logVars, setupVars, checkVars,
                   tickerVars, netPending>>

StatsNext == StatsCompute

SpecStats == StatsInit /\ [][StatsNext]_vars

\* ------------------------------------------- the start of the metrics reporter
\* LoadConfig, part_000 lines 39-54: the file is decoded into an empty
\* Config, so a field the file does not give keeps the zero value
LoadConfig(file) ==
    [ReportInterval |-> IF file.present THEN file.value ELSE 0]

\* DefaultConfig, part_000 lines 56-70
DefaultConfig == [ReportInterval |-> defaultReportInterval]

\* time.NewTicker(d) panics for a non-positive d
NewTickerPanics(d) == d <= 0

TickerInit ==
    /\ statsPc = "off" /\ statsIn = <<>> /\ statsOut = [computed |-> FALSE]
    /\ numAccounts = 0 /\ cfgSenders = 0
    /\ cfgDuration = RunConfig.DurationSeconds
    /\ cfgMaxRetries = RunConfig.MaxRetries
    /\ cfgRetryDelay = RunConfig.RetryDelay
    /\ cfgWarmupDuration = RunConfig.WarmupDuration
    /\ initNonce = <<>> /\ nonce = <<>> /\ netPending = <<>>
    /\ accSent = <<>> /\ accErrors = <<>> /\ mu = <<>>
    /\ sentCount = 0 /\ errorCount = 0 /\ totalLatency = 0
    /\ tpsHistory = <<>>
    /\ stopChan = FALSE /\ stopMetricsChan = FALSE
    /\ wg = 0
    /\ startPc = "notStarted"
    /\ finalSent = 0 /\ finalErrors = 0 /\ finalLatency = 0
    /\ report = [made |-> FALSE]
    /\ pc = <<>> /\ retry = <<>> /\ maxRetries = <<>>
    /\ consecutiveErrors = <<>> /\ firstTransaction = <<>>
    /\ txNonce = <<>> /\ txTarget = <<>> /\ latency = <<>>
    /\ repPc = "unspawned"
    /\ lastSent = 0 /\ reportCount = 0 /\ repSent = 0 /\ repErrors = 0
    /\ repLatency = 0
    /\ lastLine = [printed |-> FALSE]
    /\ started = 0 /\ begun = <<>>
    /\ graceElapsed = FALSE
    /\ atSnapshot = [taken |-> FALSE]
    /\ returned = <<>> /\ accepted = <<>> /\ acceptedLatency = 0
    /\ acceptedNonces = <<>> /\ exhausted = <<>> /\ nonceErrors = <<>>
    /\ setupPc = "off" /\ configFileGiven \in BOOLEAN
    /\ cfgNumAccounts = 0 /\ keysInFile = 0
    /\ setupLog = [failedAt |-> "none", balances |-> <<>>]
    /\ checkPc = "off" /\ checkIdx = 0
    /\ nextConfirmedNonce = 0 /\ nextPendingNonce = 0 /\ localNonce = 0
    /\ lastResync = [called |-> FALSE]
    /\ lastRow = [printed |-> FALSE]
    /\ totalPending = 0 /\ allSynced = TRUE
    /\ intervalInFile \in (IF configFileGiven THEN IntervalsInFile
                           ELSE {[present |-> FALSE, value |-> 0]})
    /\ cfgReportInterval = 0
    /\ tickerPc = "load" /\ tickerPeriod = 0 /\ clock = 0 /\ ticks = 0

\* what the start of the reporter never touches
TickerFrame ==
    UNCHANGED <<confVars, acctVars, benchVars, startVars, workerVars,
                repVars, logVars, setupVars, checkVars, statsVars,
                netPending, intervalInFile>>

\* cmd/benchmark main, lines 965-978: the config is loaded from the file, or
\* the default config is taken; no field is given a default after loading
TickerLoadConfig ==
    /\ tickerPc = "load"
    /\ cfgReportInterval' =
         IF configFileGiven THEN LoadConfig(intervalInFile).ReportInterval
         ELSE DefaultConfig.ReportInterval
    /\ tickerPc' = "spawn"
    /\ UNCHANGED <<tickerPeriod, clock, ticks>>
    /\ TickerFrame

\* metricsReporter, line 493: the ticker is made with the configured
\* interval; the panic of the reporter goroutine ends the process
TickerNew ==
    /\ tickerPc = "spawn"
    /\ IF NewTickerPanics(cfgReportInterval)
       THEN tickerPc' = "panicked" /\ UNCHANGED tickerPeriod
       ELSE tickerPc' = "running" /\ tickerPeriod' = cfgReportInterval
    /\ UNCHANGED <<cfgReportInterval, clock, ticks>>
    /\ TickerFrame

\* a second passes; the ticker delivers a tick every tickerPeriod seconds
TickerSecond ==
    /\ tickerPc = "running"
    /\ clock < MaxClock
    /\ clock' = clock + 1
    /\ ticks' = IF (clock + 1) % tickerPeriod = 0 THEN ticks + 1 ELSE ticks
    /\ UNCHANGED <<cfgReportInterval, tickerPc, tickerPeriod>>
    /\ TickerFrame

TickerNext ==
    \/ TickerLoadConfig
    \/ TickerNew
    \/ TickerSecond

SpecTicker == TickerInit /\ [][TickerNext]_vars

\* ------------------------------------------------------------- fairness
\* every goroutine that can take a step is scheduled while the process
\* lives; a submission call that is in flight returns; the timers of Start
\* after the run's sleep (the grace delay) and of the workers (retry sleep,
\* back-off) expire. The run's own sleep and the reporter's ticker are not
\* required to fire. Start waits for the workers (wg.Wait, line 356) and
\* for nothing else: once it has returned, main returns (lines 1040-1041)
\* and the process ends, so a step the reporter has not taken by then is
\* not required to happen.
WorkerStep(w) ==
    /\ w \in Workers
    /\ \/ WorkerStop(w)
       \/ WorkerBegin(w)
       \/ WorkerSend(w)
       \/ \E lat \in Latencies : WorkerSuccess(w, lat)
       \/ WorkerAddSent(w)
       \/ WorkerAddLatency(w)
       \/ WorkerAddAccountSent(w)
       \/ \E e \in ErrorMessages : WorkerNonceError(w, e)
       \/ \E e \in ErrorMessages : WorkerTransientError(w, e)
       \/ WorkerAddError(w)
       \/ WorkerAddAccountError(w)
       \/ WorkerBackoff(w)

StartDrainStep ==
    \/ StartLoadErrors
    \/ StartLoadLatency
    \/ StartCloseStop
    \/ StartWait
    \/ StartGrace
    \/ StartCloseMetrics
    \/ StartReport
    \/ StartSaveResults

ReporterStep ==
    \/ RepTickLoadErrors
    \/ RepTickLoadLatency
    \/ RepTickAppend
    \/ RepStop

Fairness ==
    /\ WF_vars(StartDrainStep)
    /\ WF_vars(startPc # "done" /\ ReporterStep)
    /\ \A w \in UNION { { <<a, s>> :
                             a \in 0 .. (cfg[1] - 1),
                             s \in 0 .. (ConcurrentSenders(cfg[2]) - 1) } :
                         cfg \in Configs } :
         WF_vars(WorkerStep(w))

LiveSpec == Init /\ [][Next]_vars /\ Fairness

\* ------------------------------------------------------------- properties
AllocationStep(w) == pc[w] = "send" /\ pc'[w] = "inflight"
StopBroadcastStep == startPc = "closeStop" /\ startPc' = "wait"
AllDone == \A w \in Workers : pc[w] = "done"
CountAt(S, places) == Cardinality({w \in S : pc[w] \in places})

\* C1: the N values returned by N allocations on one account are pairwise
\* distinct and are exactly initial, initial+1, ..., initial+N-1: every
\* allocation returns a value not returned before, the next of the range.
C1_AllocationsDistinctContiguous ==
    [][\A w \in Workers :
         AllocationStep(w) =>
           LET a == AccountOf(w) IN
           /\ txNonce'[w] \notin returned[a]
           /\ txNonce'[w] = initNonce[a] + Cardinality(returned[a])]_vars

\* C2: one allocation returns the nonce held before the call and leaves the
\* nonce one higher, so a transaction built after a success at nonce n on
\* the same account carries a nonce greater than n.
C2_AllocationAdvances ==
    [][\A w \in Workers :
         AllocationStep(w) =>
           LET a == AccountOf(w) IN
           /\ txNonce'[w] = nonce[a]
           /\ nonce'[a] = nonce[a] + 1
           /\ \A n \in acceptedNonces[a] : txNonce'[w] > n]_vars

\* C3 as stated: the snapshot's sent value is the number of successes
\* recorded in sentCount before the worker stop signal is broadcast.
C3_SnapshotEqualsSentAtBroadcast ==
    [][StopBroadcastStep => finalSent = sentCount]_vars

\* C3 amended: the snapshot's sent value is sentCount at the instant Start
\* loads it; it is kept until the broadcast and is at most the number of
\* successes recorded by then.
C3_SnapshotIsSentAtLoad ==
    [][/\ (startPc = "sleep" /\ startPc' # "sleep") => finalSent' = sentCount
       /\ startPc \notin {"spawn", "sleep"} => finalSent' = finalSent
       /\ StopBroadcastStep => finalSent <= sentCount]_vars

C3_Witness ==
    startPc = "closeStop" /\ finalSent = 1 /\ sentCount = 2

\* C4: a submission that completes after the snapshot has been read appears
\* nowhere in the final report: not in the totals, not in a per-account
\* figure, not in the throughput history.
C4_LateSubmissionsExcluded ==
    report.made =>
      /\ report.totalSubmitted <= SumOver(atSnapshot.accepted, Accounts)
      /\ report.totalErrors <= SumOver(atSnapshot.exhausted, Accounts)
      /\ \A a \in Accounts :
           /\ report.accountSent[a] <= atSnapshot.accepted[a]
           /\ report.accountErrors[a] <= atSnapshot.exhausted[a]
      /\ SumSeq(report.history) <= SumOver(atSnapshot.accepted, Accounts)
      /\ report.saved.written =>
           SumSeq(report.saved.history) <= SumOver(atSnapshot.accepted, Accounts)

\* C5: errorCount and the account's errors grow by one for a transaction
\* whose every attempt of the retry budget ended in a transient error, and
\* by nothing for any other transaction.
C5_ErrorsCountExhaustedOnly ==
    /\ errorCount = SumOver(exhausted, Accounts) - CountAt(Workers, {"addErr"})
    /\ \A a \in Accounts :
         accErrors[a] =
           exhausted[a] - CountAt(WorkersOf(a), {"addErr", "addAccErr"})

C5_Witness ==
    /\ errorCount = 1 /\ sentCount = 1
    /\ \E a \in Accounts : exhausted[a] = 1 /\ accErrors[a] = 1
    /\ \A w \in Workers : pc[w] = "select"

\* C6: on a nonce-class error the worker makes no further attempt for the
\* transaction, increments no sent or error counter, resets its
\* consecutive-error counter and is back at the top of its loop.
C6_NonceErrorMovesOn ==
    [][\A a \in Accounts :
         nonceErrors'[a] # nonceErrors[a] =>
           /\ \E w \in WorkersOf(a) :
                /\ pc[w] = "inflight" /\ pc'[w] = "select"
                /\ consecutiveErrors'[w] = 0
           /\ UNCHANGED <<sentCount, errorCount, accSent, accErrors,
                          totalLatency>>]_vars

C6_Witness ==
    /\ Cardinality(Workers) = 1
    /\ \E a \in Accounts : nonceErrors[a] = 1 /\ exhausted[a] = 1
    /\ \A w \in Workers : pc[w] = "select" /\ consecutiveErrors[w] = 0

\* C7: every success adds one to sentCount and to the account's sent, adds
\* its latency to totalLatency and resets the worker's consecutive-error
\* counter; nothing else increases sentCount.
C7_Counted ==
    /\ sentCount = SumOver(accepted, Accounts) - CountAt(Workers, {"addSent"})
    /\ totalLatency =
         acceptedLatency
         - SumOver(latency, {w \in Workers : pc[w] \in {"addSent", "addLatency"}})
    /\ \A a \in Accounts :
         accSent[a] =
           accepted[a]
           - CountAt(WorkersOf(a), {"addSent", "addLatency", "addAccSent"})

C7_SuccessCounted ==
    /\ []C7_Counted
    /\ [][\A w \in Workers :
            (pc[w] = "addAccSent" /\ pc'[w] # "addAccSent") =>
              consecutiveErrors'[w] = 0]_vars

C7_Witness ==
    /\ sentCount = 1 /\ errorCount = 1 /\ totalLatency = 2
    /\ Cardinality(Workers) = 1
    /\ \A w \in Workers : pc[w] = "select" /\ consecutiveErrors[w] = 0
    /\ \A a \in Accounts : accSent[a] = 1

\* C8: Start shuts down in the order snapshot, worker stop, wait for the
\* workers, grace delay, reporter stop, final report.
C8_ShutdownOrder ==
    /\ stopChan => atSnapshot.taken /\ startPc \notin {"spawn", "sleep"}
    /\ startPc \in {"grace", "closeMetrics", "report", "save", "done"} =>
         stopChan /\ AllDone /\ wg = 0
    /\ graceElapsed => stopChan /\ AllDone
    /\ stopMetricsChan => graceElapsed
    /\ report.made => stopMetricsChan /\ startPc = "done"
    /\ ~stopMetricsChan => startPc # "done" /\ ~report.made

C8_Witness ==
    report.made /\ sentCount > 0 /\ errorCount > 0

\* C9: once the worker stop signal has been broadcast, a worker in a
\* transient-error retry sequence issues no further submission attempt.
C9_NoAttemptAfterStop ==
    [][\A w \in Workers :
         (stopChan /\ retry[w] > 0) => ~AllocationStep(w)]_vars

\* C10: after the worker stop signal has been broadcast no worker begins a
\* new transaction; a worker at the top of its loop returns.
C10_NoNewTransactionAfterStop ==
    [][stopChan =>
         /\ started' = started
         /\ \A w \in Workers :
              pc[w] = "select" => pc'[w] \in {"select", "done"}]_vars

C10_Witness ==
    /\ stopChan /\ started < TxBudget
    /\ \E w \in Workers : pc[w] = "done"
    /\ \E w \in Workers : pc[w] = "addAccSent"

\* C11: once the run's sleep has returned, every worker eventually exits,
\* the wait on the worker group returns, the reporter exits and Start makes
\* the final report, whatever the submissions returned.
C11_DrainTerminates ==
    (startPc \notin {"spawn", "sleep"}) ~>
        (/\ AllDone /\ wg = 0
         /\ repPc = "done"
         /\ startPc = "done" /\ report.made)

\* C12: sentCount, errorCount and every account's sent and errors never
\* decrease; the totals of the snapshot are not changed once it is taken,
\* and they are the totals the final report shows.
C12_CountersMonotoneTotalsFrozen ==
    [][/\ sentCount' >= sentCount /\ errorCount' >= errorCount
       /\ \A a \in Accounts :
            accSent'[a] >= accSent[a] /\ accErrors'[a] >= accErrors[a]
       /\ atSnapshot.taken =>
            finalSent' = finalSent /\ finalErrors' = finalErrors
       /\ report'.made =>
            /\ report'.totalSubmitted = finalSent
            /\ report'.totalErrors = finalErrors
            /\ report'.saved.written =>
                 /\ report'.saved.totalSubmitted = finalSent
                 /\ report'.saved.totalErrors = finalErrors
       /\ report.made => report' = report]_vars

C12_Witness ==
    /\ report.made /\ report.saved.written
    /\ report.totalSubmitted = 1 /\ sentCount = 2
    /\ report.totalErrors = 0 /\ errorCount = 0

\* C14: a transaction built for account i of N accounts is addressed to
\* account i+1, and to account 0 for the last account; every account is the
\* target of exactly one source account (with four accounts, 3 sends to 0).
C14_RoundRobinTarget ==
    /\ \A w \in Workers :
         pc[w] = "inflight" =>
           txTarget[w] = (IF AccountOf(w) = numAccounts - 1
                          THEN 0 ELSE AccountOf(w) + 1)
    /\ \A a \in Accounts :
         Cardinality({src \in Accounts :
                        TargetIndex(src, numAccounts) = a}) = 1
    /\ TargetIndex(3, 4) = 0
    /\ \A a \in 0 .. 3 :
         Cardinality({src \in 0 .. 3 : TargetIndex(src, 4) = a}) = 1

C14_Witness ==
    /\ numAccounts = 2
    /\ \E w \in Workers :
         AccountOf(w) = 1 /\ pc[w] = "inflight" /\ txTarget[w] = 0
    /\ \E w \in Workers :
         AccountOf(w) = 0 /\ pc[w] = "inflight" /\ txTarget[w] = 1

\* C15: Start spawns len(accounts) * c workers, c per account, where c is
\* the configured number of senders per account, or 1 when that number is
\* zero or negative; every account has at least one worker.
C15_WorkerCount ==
    startPc # "spawn" =>
      LET c == IF cfgSenders <= 0 THEN 1 ELSE cfgSenders IN
      /\ Cardinality(Workers) = numAccounts * c
      /\ \A a \in Accounts :
           Cardinality(WorkersOf(a)) = c /\ WorkersOf(a) # {}

C15_Witness ==
    /\ startPc # "spawn" /\ cfgSenders < 0
    /\ Cardinality(Workers) = 1
    /\ \E w \in Workers : pc[w] = "inflight"

\* C17: the accept rate is sent/(sent+errors) as a percentage and is 0 when
\* sent and errors are both 0, in the printed final summary and in the
\* saved record.
C17_AcceptRateDefined ==
    report.made =>
      LET s == report.totalSubmitted
          e == report.totalErrors
      IN /\ ~report.acceptRate.nan
         /\ report.acceptRate.hundredths =
              (IF s + e = 0 THEN 0 ELSE FormatPercent2(s, s + e))
         /\ report.saved.written =>
              report.saved.rpcAcceptRate =
                (IF s + e = 0 THEN Float64Zero
                 ELSE Percentage(s, s + e))

\* C18: when a setup step fails (connecting, the chain id, loading the keys,
\* initialising an account, the balance check, a balance below the minimum,
\* the gas price) the program exits before Benchmark.Start: no worker and no
\* reporter is spawned and no transaction is submitted.
C18_SetupFailureAborts ==
    /\ setupLog.failedAt # "none" =>
         /\ setupPc = "aborted" /\ startPc = "notStarted"
         /\ Workers = {} /\ repPc = "unspawned" /\ started = 0
         /\ \A a \in DOMAIN returned : returned[a] = {} /\ accepted[a] = 0
    /\ (\E i \in DOMAIN setupLog.balances :
            setupLog.balances[i] < minBalance) =>
         setupLog.failedAt = "checkBalances"
    /\ startPc # "notStarted" =>
         setupPc = "ready" /\ setupLog.failedAt = "none"

C18_Witness ==
    /\ setupPc = "aborted" /\ setupLog.failedAt = "checkBalances"
    /\ numAccounts = 2
    /\ setupLog.balances = <<1, 0>>

\* C19: a run without a config file and with -accounts n, n positive and
\* smaller than the number of keys in the keys file, uses exactly n
\* accounts.
C19_AccountsFlagLimitsKeys ==
    (/\ ~configFileGiven
     /\ cfgNumAccounts > 0 /\ cfgNumAccounts < keysInFile
     /\ startPc \notin {"notStarted", "spawn"}) =>
        /\ numAccounts = cfgNumAccounts
        /\ Cardinality({AccountOf(w) : w \in Workers}) = cfgNumAccounts

\* C13: a ResyncNonce call that succeeds leaves the account's local nonce
\* equal to the pending nonce the network client returned, whether the
\* local nonce was higher, lower or equal before, and the CurrentNonce
\* call that follows returns that value.
C13_ResyncSetsPendingNonce ==
    (lastResync.called /\ lastResync.ok) =>
      IF checkPc = "current"
      THEN nonce[checkIdx] = lastResync.value
      ELSE /\ lastRow.printed
           /\ nonce[lastRow.account] = lastResync.value
           /\ localNonce = lastResync.value
           /\ lastRow.local = lastResync.value

C13_Witness ==
    /\ checkPc = "done" /\ numAccounts = 2
    /\ nonce[0] > initNonce[0]
    /\ lastResync.ok /\ lastResync.before > lastResync.value
    /\ lastRow.account = 1 /\ lastRow.local = lastResync.value

\* the number of samples of h below v, and at most v
CountBelow(h, v) == Cardinality({i \in DOMAIN h : h[i] < v})
CountAtMost(h, v) == Cardinality({i \in DOMAIN h : h[i] <= v})

\* C16: for a non-empty history calculateTPSStats returns the smallest
\* sample, the largest sample and the middle element of the ascending sort
\* (62, 70 and 65 for [64,62,68,70,65]); for the empty history it returns
\* 0, 0 and 0.
C16_StatsOfHistory ==
    /\ statsOut.computed =>
         IF statsIn = <<>>
         THEN statsOut.min = 0 /\ statsOut.max = 0 /\ statsOut.median = 0
         ELSE /\ \E i \in DOMAIN statsIn : statsOut.min = statsIn[i]
              /\ \A i \in DOMAIN statsIn : statsOut.min <= statsIn[i]
              /\ \E i \in DOMAIN statsIn : statsOut.max = statsIn[i]
              /\ \A i \in DOMAIN statsIn : statsOut.max >= statsIn[i]
              /\ \E i \in DOMAIN statsIn : statsOut.median = statsIn[i]
              /\ CountBelow(statsIn, statsOut.median) <= Len(statsIn) \div 2
              /\ CountAtMost(statsIn, statsOut.median) > Len(statsIn) \div 2
    /\ calculateTPSStats(<<64, 62, 68, 70, 65>>) =
         [min |-> 62, max |-> 70, median |-> 65]
    /\ calculateTPSStats(<<>>) = [min |-> 0, max |-> 0, median |-> 0]

C16_Witness ==
    /\ statsOut.computed
    /\ statsIn = <<64, 62, 68, 70, 65>>
    /\ statsOut.min = 62 /\ statsOut.max = 70 /\ statsOut.median = 65

\* C20: during a run, after a submission error on an account the account's
\* local nonce is set to the network's pending nonce, so that when the run
\* has ended no account that met an error is left with a local nonce that
\* differs from the network's.
C20_ResyncAfterError ==
    startPc = "done" =>
      \A a \in Accounts :
        (accErrors[a] > 0 \/ nonceErrors[a] > 0) => nonce[a] = netPending[a]

\* C21: the number of submission attempts a worker makes for one transaction
\* on transient errors is at most the configured max_retries, and the delay
\* before each attempt after the first is the configured retry_delay.
C21_RetriesFollowConfig ==
    \A w \in Workers :
      pc[w] = "inflight" =>
        /\ retry[w] + 1 <= cfgMaxRetries
        /\ retry[w] > 0 =>
             RetrySleep(retry[w] - 1, maxRetries[w]) = cfgRetryDelay

\* C22: in a run no longer than the warm-up period every transaction is
\* submitted during warm-up, so the final report counts no submission, no
\* error and no latency.
C22_WarmupExcluded ==
    (report.made /\ cfgDuration <= cfgWarmupDuration) =>
      /\ report.totalSubmitted = 0
      /\ report.totalErrors = 0
      /\ report.totalLatency = 0

\* C28: the final snapshot is one consistent state of the counters: its
\* cumulative latency is the sum of the latencies of exactly as many
\* submissions as its sent value counts.
C28_SnapshotConsistent ==
    atSnapshot.taken =>
      \E f \in [1 .. finalSent -> Latencies] : finalLatency = SumSeq(f)

\* C29: every line the reporter prints after the final snapshot has been
\* captured shows the snapshot's sent and error values.
C29_TrailingLineShowsSnapshot ==
    [][(atSnapshot.taken /\ repPc = "append" /\ repPc' = "select") =>
         /\ lastLine'.sent = finalSent
         /\ lastLine'.errors = finalErrors]_vars

\* C30: each tick appends to the history the value of sentCount read at this
\* tick minus the value read at the previous tick (0 before the first); no
\* sample is negative, the history only grows by appending, and after every
\* tick the samples add up to the value of sentCount read at that tick.
C30_ThroughputSamples ==
    /\ [](/\ SumSeq(tpsHistory) = lastSent
          /\ \A i \in DOMAIN tpsHistory : tpsHistory[i] >= 0
          /\ Len(tpsHistory) =
               IF repPc \in {"loadErrors", "loadLatency", "append"}
               THEN reportCount - 1 ELSE reportCount)
    /\ [][IF repPc = "append" /\ repPc' = "select"
          THEN /\ tpsHistory' = Append(tpsHistory, repSent - lastSent)
               /\ lastSent' = repSent
          ELSE tpsHistory' = tpsHistory /\ lastSent' = lastSent]_vars

C30_Witness ==
    /\ Len(tpsHistory) = 2 /\ tpsHistory[1] = 1 /\ tpsHistory[2] = 1
    /\ lastSent = 2 /\ sentCount = 2

\* C25: only the first transaction a worker begins gets the budget of 8
\* attempts; every later transaction of the worker gets the budget of 2,
\* whatever the outcome of the first.
C25_OnlyFirstTransactionGetsLargeBudget ==
    [][\A w \in Workers :
         (pc[w] = "select" /\ pc'[w] = "send") =>
           maxRetries'[w] = IF BegunBy(w) = 0
                            THEN firstTransactionRetries
                            ELSE maxRetriesPerNonce]_vars

\* C26: every attempt of one transaction after a transient error carries
\* the nonce of the attempt before it, also when other workers of the
\* account allocate in between, and a transaction in flight is never past
\* the last attempt of its retry budget.
C26_RetriesKeepNonce ==
    /\ [](\A w \in Workers :
            pc[w] = "inflight" =>
              /\ retry[w] + 1 <= maxRetries[w]
              /\ maxRetries[w] = MaxRetriesFor(firstTransaction[w]))
    /\ [][\A w \in Workers :
           (AllocationStep(w) /\ retry[w] > 0) =>
             txNonce'[w] = txNonce[w]]_vars

C26_Witness ==
    \E w \in Workers, v \in Workers :
      /\ w # v /\ AccountOf(w) = AccountOf(v)
      /\ pc[w] = "inflight" /\ retry[w] + 1 = maxRetries[w]
      /\ txNonce[w] = initNonce[AccountOf(w)]
      /\ pc[v] = "inflight" /\ retry[v] = 0

\* C23: the reporter does not stop when the worker stop signal is
\* broadcast: through the drain it can still take a tick, it exits only
\* after stopMetricsChan has been closed, and once stopMetricsChan is closed
\* it eventually exits.
C23_ReporterStopsOnOwnSignal ==
    /\ [](repPc = "done" => stopMetricsChan)
    /\ []((/\ stopChan /\ ~stopMetricsChan
           /\ repPc = "select" /\ reportCount < TickBudget)
             => ENABLED RepTickLoadSent)
    /\ [][~stopMetricsChan' => repPc' # "done"]_vars
    /\ (stopMetricsChan ~> repPc = "done")

\* C24: no worker blocks on another worker: every worker that has not
\* exited can take its next step whatever the other workers do, a waiting
\* worker waits for its own submission or its own backoff sleep, and the
\* nonce lock of an account is free whenever a worker is in a network call
\* or a sleep.
C24_NoWorkerBlocksOnAnother ==
    /\ \A w \in Workers :
         pc[w] # "done" =>
             \/ ENABLED WorkerStep(w)
             \/ pc[w] = "select" /\ ~stopChan /\ started >= TxBudget
    /\ \A w \in Workers :
         pc[w] \in {"inflight", "backoff"} => ~mu[AccountOf(w)]
    /\ startPc # "notStarted" => \A a \in Accounts : ~mu[a]

C24_Witness ==
    \E w \in Workers, v \in Workers :
      /\ w # v /\ AccountOf(w) = AccountOf(v)
      /\ pc[w] = "inflight" /\ retry[w] > 0
      /\ pc[v] = "send" /\ ENABLED WorkerSend(v)

\* C27: after every exhausted-retry failure, whatever the value of the
\* consecutive-error counter, the worker sleeps a non-zero bounded backoff
\* delay before it begins its next transaction.
C27_BackoffAfterEveryFailure ==
    [][\A w \in Workers :
         (pc[w] = "addAccErr" /\ pc'[w] # "addAccErr") =>
           /\ pc'[w] = "backoff"
           /\ BackoffSleep(consecutiveErrors'[w]) \in 1 .. backoffSleepMs]_vars

\* C31: when printFinalReport starts, the reporter has terminated, and no
\* append to the throughput history by the reporter follows that start.
C31_ReporterDoneBeforeReport ==
    [][/\ (startPc = "report" /\ startPc' = "save") => repPc = "done"
       /\ startPc \in {"save", "done"} => tpsHistory' = tpsHistory]_vars

\* C32: for an even-length history the median reported is the upper of the
\* two middle elements of the ascending sort (68 for [64,62,68,70]), an
\* element of the history and never the average of the two, and the history
\* passed in keeps its chronological order.
C32_EvenMedianIsUpperMiddle ==
    /\ (statsOut.computed /\ Len(statsIn) > 0 /\ Len(statsIn) % 2 = 0) =>
         LET half == Len(statsIn) \div 2 IN
         /\ \E i \in DOMAIN statsIn : statsOut.median = statsIn[i]
         /\ CountBelow(statsIn, statsOut.median) <= half
         /\ CountAtMost(statsIn, statsOut.median) >= half + 1
    /\ statsOut.computed => statsOut.history = statsIn
    /\ calculateTPSStats(<<64, 62, 68, 70>>).median = 68

C32_Witness ==
    /\ statsOut.computed
    /\ statsIn = <<70, 62, 68, 64>>
    /\ statsOut.median = 68
    /\ statsOut.history = <<70, 62, 68, 64>>

\* C33: the success rate reported for an account is sent/(sent+errors)*100
\* of that account's own counters, whatever the other accounts' counters
\* are, and 100 for an account with no sent and no errors; the line printed
\* and the entry saved give the same counters and the same rate.
C33_AccountSuccessRate ==
    report.made =>
      \A a \in Accounts :
        LET sent == accSent[a]
            errors == accErrors[a]
            printed == report.accountRate[a]
        IN /\ report.accountSent[a] = sent
           /\ report.accountErrors[a] = errors
           /\ IF sent + errors = 0
              THEN printed = 1000
              ELSE LET over == printed * (sent + errors) - 1000 * sent IN
                   /\ 2 * over <= sent + errors
                   /\ 2 * (0 - over) <= sent + errors
           /\ report.saved.written =>
                LET e == report.saved.accountStats[a] IN
                /\ e.sent = sent /\ e.errors = errors
                /\ e.successRate =
                     (IF sent + errors = 0 THEN Float64FromUint[100]
                      ELSE Percentage(sent, sent + errors))
                /\ FormatPercent1(e.successRate) = printed

C33_Witness ==
    /\ report.made /\ report.saved.written /\ numAccounts = 2
    /\ \E a \in Accounts, b \in Accounts :
         /\ accSent[a] = 1 /\ accErrors[a] = 1
         /\ report.accountRate[a] = 500
         /\ accSent[b] = 0 /\ accErrors[b] = 0
         /\ report.accountRate[b] = 1000

\* C34: in every state the per-account sent counters add up to at most
\* sentCount and the per-account errors counters to at most errorCount;
\* once every worker has exited both sums equal the global counters.
C34_AccountSumsBoundedByGlobals ==
    /\ SumOver(accSent, Accounts) <= sentCount
    /\ SumOver(accErrors, Accounts) <= errorCount
    /\ AllDone =>
         /\ SumOver(accSent, Accounts) = sentCount
         /\ SumOver(accErrors, Accounts) = errorCount

C34_Witness ==
    /\ Workers # {} /\ AllDone /\ numAccounts = 2
    /\ sentCount = 1 /\ errorCount = 1
    /\ \E a \in Accounts, b \in Accounts :
         a # b /\ accSent[a] = 1 /\ accErrors[b] = 1

\* C35: when the query inside ResyncNonce fails, ResyncNonce returns the
\* error, the account's local nonce is what it was before the call and the
\* account's lock is free again, so the GetNextNonce or CurrentNonce call
\* that follows goes through and returns the value from before the call.
C35_FailedResyncKeepsNonce ==
    (lastResync.called /\ ~lastResync.ok) =>
      IF checkPc = "current"
      THEN /\ nonce[checkIdx] = lastResync.before
           /\ ~mu[checkIdx]
           /\ ENABLED CheckCurrentNonce
           /\ GetNextNonce(nonce[checkIdx]).ret = lastResync.before
           /\ CurrentNonce(nonce[checkIdx]) = lastResync.before
      ELSE /\ lastRow.printed
           /\ nonce[lastRow.account] = lastResync.before
           /\ lastRow.local = lastResync.before
           /\ ~mu[lastRow.account]

C35_Witness ==
    /\ checkPc = "done"
    /\ lastResync.called /\ ~lastResync.ok
    /\ lastResync.value # lastResync.before
    /\ lastRow.printed /\ lastRow.local = lastResync.before
    /\ netPending[lastRow.account] # nonce[lastRow.account]

\* C36: CurrentNonce returns the account's local nonce and changes nothing,
\* whatever calls of GetNextNonce, IncrementNonce and ResyncNonce other
\* goroutines make around it and while it runs: from the step in which a
\* call of CurrentNonce takes the lock to the step in which it returns, the
\* nonce of its account and the sent and errors counters keep their values;
\* the value returned is that nonce, and the call leaves the lock free.
C36_CurrentNonceReadsOnly ==
    [][\A w \in Workers :
         /\ (pc[w] = "CurrentNonce" \/ pc'[w] = "CurrentNonce") =>
              /\ nonce'[AccountOf(w)] = nonce[AccountOf(w)]
              /\ accSent' = accSent /\ accErrors' = accErrors
         /\ (pc[w] # pc'[w] /\ "CurrentNonce" \in {pc[w], pc'[w]}) =>
              nonce' = nonce
         /\ (pc[w] = "CurrentNonce" /\ pc'[w] = "idle") =>
              /\ localNonce' = nonce[AccountOf(w)]
              /\ ~mu'[AccountOf(w)]]_vars

\* a call of CurrentNonce has returned 8, the nonce an IncrementNonce left
\* after a GetNextNonce of the other caller had returned 7, and a failed
\* ResyncNonce has run
C36_Witness ==
    /\ \A w \in Workers : pc[w] = "idle"
    /\ localNonce = nonce[0] /\ nonce[0] = initNonce[0] + 1
    /\ \E w \in Workers : AccountOf(w) = 0 /\ txNonce[w] = initNonce[0]
    /\ lastResync.called /\ ~lastResync.ok /\ lastResync.before = nonce[0]

\* C37: the reporter's ticker runs on the configured report interval, and
\* on an interval of 1 when a loaded config gives none or gives zero; the
\* reporter never fails to start because of a non-positive interval.
C37_ReporterAlwaysStarts ==
    /\ tickerPc # "panicked"
    /\ tickerPc = "running" =>
         /\ tickerPeriod = IF cfgReportInterval > 0 THEN cfgReportInterval
                           ELSE defaultReportInterval
         /\ ticks = clock \div tickerPeriod

====
